---- MODULE Spec2Model ----
(***************************************************************************)
(* TalentFlow content-acquisition engine: the fetch orchestrator           *)
(* (server/app/utils/advanced_fetch.py), the response classifier           *)
(* (server/app/utils/antibot.py) and the acquisition entry point           *)
(* (server/app/utils/advanced_extractor.py).                               *)
(*                                                                         *)
(* Time is counted in ticks of half a second: every interval the code      *)
(* uses (1.5 s, 10 s, 2.0 s, 1.0 s + 0.5 s * attempt) is a whole number of   *)
(* ticks.  The code stores time.time() stamps and only ever reads the      *)
(* difference between the present and a stamp; the model stores that       *)
(* difference, the age of the stamp, which grows by one with every tick    *)
(* up to the largest value the code tells apart.  Each action is one run   *)
(* of a coroutine between two suspension points (await asyncio.sleep,      *)
(* await of an executor's network I/O): the event loop runs such a stretch *)
(* without interleaving.                                                   *)
(***************************************************************************)
EXTENDS Integers, Sequences, FiniteSets, TLC

None == "None"

(***************************************************************************)
(* Bounds of the model.                                                    *)
(***************************************************************************)
\* acquisition calls that can be in flight at the same time
NumCalls == 2
\* acquisition calls made in one run
MaxCalls == 2
\* acquisition calls request handlers make in all
MaxOverlapping == 3
\* largest max_retries passed to an acquisition call
MaxRetries == 2
\* ticks an executor may take beyond the least time of its slowest answer
MaxExtra == 0

Calls == 1..NumCalls

(***************************************************************************)
(* Program constants (in ticks where they are durations).                  *)
(***************************************************************************)
\* self.rate_limit_delay = 1.5 seconds
rate_limit_delay == 3
\* self.cache_ttl = 10.0 seconds
cache_ttl == 20
\* len(html.strip()) < 100 is an empty response
MinContentLen == 100
\* the stealth fallback is accepted when len(html) > 1000
FallbackMinLen == 1000

(***************************************************************************)
(* The response classifier, antibot.py.                                    *)
(* An html page is abstracted to what the classifier reads of it: its      *)
(* length, the BLOCK_MARKERS it contains, whether it contains one of the   *)
(* js_patterns, and its counts of hidden inputs and display:none elements. *)
(***************************************************************************)
BLOCK_MARKERS ==
  << "checking your browser before accessing", "cloudflare", "ray id:", "cf-ray",
     "ddos protection", "attention required", "security check",
     "captcha", "recaptcha", "hcaptcha", "are you a robot", "robot check",
     "verify you are human", "prove you are human", "i'm not a robot",
     "access denied", "forbidden", "error 403", "error 404", "error 429",
     "too many requests", "rate limit", "blocked", "banned",
     "suspicious activity", "automated requests", "unusual traffic",
     "bot detected", "please wait", "temporarily unavailable",
     "please enable javascript", "javascript required", "browser not supported",
     "session expired", "cookie required", "please refresh",
     "challenge", "verification", "solve puzzle", "complete verification" >>

Range(s) == {s[i] : i \in 1..Len(s)}

Min(a, b) == IF a < b THEN a ELSE b

Html(size, markers, js, hidden, invisible) ==
  [size |-> size, markers |-> markers, js |-> js, hidden |-> hidden, invisible |-> invisible]

EmptyHtml == Html(0, {}, FALSE, 0, 0)

\* confidence added by one found marker, in tenths
MarkerWeight(m) ==
  IF m \in {"cloudflare", "captcha", "recaptcha"} THEN 3
  ELSE IF m \in {"access denied", "forbidden", "blocked"} THEN 4
  ELSE 2

RECURSIVE SumWeights(_)
SumWeights(ms) ==
  IF ms = {} THEN 0
  ELSE LET m == CHOOSE x \in ms : TRUE IN MarkerWeight(m) + SumWeights(ms \ {m})

_classify_block_type(markers) ==
  IF markers \cap {"cloudflare", "cf-ray", "ray id"} # {} THEN "cloudflare"
  ELSE IF markers \cap {"captcha", "recaptcha", "hcaptcha"} # {} THEN "captcha"
  ELSE IF markers \cap {"access denied", "forbidden", "error 403"} # {} THEN "access_control"
  ELSE IF markers \cap {"rate limit", "too many requests", "error 429"} # {} THEN "rate_limiting"
  ELSE IF markers \cap {"javascript required", "please enable javascript"} # {} THEN "javascript_challenge"
  ELSE "generic_block"

\* a variant that sends a captcha to the browser
_get_suggested_actionBrowser(block_type) ==
  CASE block_type = "cloudflare" -> "use_browser_automation"
    [] block_type = "captcha" -> "use_browser_automation"
    [] block_type = "access_control" -> "retry_with_different_ip"
    [] block_type = "rate_limiting" -> "wait_and_retry"
    [] block_type = "javascript_challenge" -> "use_browser_automation"
    [] block_type = "generic_block" -> "retry_with_different_strategy"
    [] OTHER -> "retry"

_get_suggested_action(block_type) ==
  CASE block_type = "cloudflare" -> "use_browser_automation"
    [] block_type = "captcha" -> "use_captcha_solver"
    [] block_type = "access_control" -> "retry_with_different_ip"
    [] block_type = "rate_limiting" -> "wait_and_retry"
    [] block_type = "javascript_challenge" -> "use_browser_automation"
    [] block_type = "generic_block" -> "retry_with_different_strategy"
    [] OTHER -> "retry"

_detect_javascript_challenge(html) == html.js

_detect_honeypot(html) == html.hidden > 10 \/ html.invisible > 5

BlockInfo(type, confidence, markers, action) ==
  [blocked |-> TRUE, type |-> type, confidence |-> confidence,
   markers |-> markers, suggested_action |-> action]

\* the classifier's "return None": the initial block_info, blocked = False
NoBlock ==
  [blocked |-> FALSE, type |-> None, confidence |-> 0,
   markers |-> {}, suggested_action |-> None]

\* found_markers: the BLOCK_MARKERS contained in the lower-cased html
FoundMarkers(html) == html.markers \cap Range(BLOCK_MARKERS)

\* a variant that tests the content before the status
detect_blockingContentFirst(html, status) ==
  IF html.size < MinContentLen
    THEN BlockInfo("empty_response", 8, {"empty_or_minimal_content"}, "retry_with_browser")
  ELSE IF status \in {403, 429, 503}
    THEN BlockInfo("http_status", 9, {"HTTP " \o ToString(status)}, "retry_with_different_ip")
  ELSE IF status >= 400
    THEN BlockInfo("http_error", 7, {"HTTP " \o ToString(status)}, "retry")
  ELSE NoBlock

detect_blocking(html, status) ==
  IF status \in {403, 429, 503}
    THEN BlockInfo("http_status", 9, {"HTTP " \o ToString(status)}, "retry_with_different_ip")
  ELSE IF status >= 400
    THEN BlockInfo("http_error", 7, {"HTTP " \o ToString(status)}, "retry")
  ELSE IF html.size < MinContentLen
    THEN BlockInfo("empty_response", 8, {"empty_or_minimal_content"}, "retry_with_browser")
  ELSE IF FoundMarkers(html) # {}
    THEN LET block_type == _classify_block_type(FoundMarkers(html))
         IN BlockInfo(block_type, Min(SumWeights(FoundMarkers(html)), 10),
                      FoundMarkers(html), _get_suggested_action(block_type))
  ELSE IF _detect_javascript_challenge(html)
    THEN BlockInfo("javascript_challenge", 8, {"javascript_required"}, "use_browser_automation")
  ELSE IF _detect_honeypot(html)
    THEN BlockInfo("honeypot", 6, {"honeypot_detected"}, "avoid_suspicious_elements")
  ELSE NoBlock


(***************************************************************************)
(* Request-pattern analysis, antibot.py.  The request history of the       *)
(* process-wide AntiBot is summarised by what the analysis reads of it:    *)
(* the number of requests of the last five minutes, whether their average  *)
(* interval is below 2.0 s, and whether they all went to one domain.       *)
(***************************************************************************)
Pattern(count, regular, single) ==
  [request_count |-> count, regular |-> regular, single_domain |-> single]

\* risk_score in ten-thousandths, as the float additions 0.0 (+0.3) (+0.4) (+0.2)
\* produce it: 0.4 + 0.2 is 0.6000000000000001 and 0.7 + 0.2 is 0.8999999999999999
RiskSum(many, regular, same) ==
  CASE ~many /\ ~regular /\ ~same -> 0
    [] many /\ ~regular /\ ~same -> 3000
    [] ~many /\ regular /\ ~same -> 4000
    [] ~many /\ ~regular /\ same -> 2000
    [] many /\ regular /\ ~same -> 7000
    [] many /\ ~regular /\ same -> 5000
    [] ~many /\ regular /\ same -> 6001
    [] many /\ regular /\ same -> 8999

get_request_pattern_analysis(pat) ==
  IF pat.request_count = 0 THEN 0
  ELSE Min(RiskSum(pat.request_count > 20,
                   pat.regular,
                   pat.single_domain /\ pat.request_count > 10), 10000)

should_rotate_identity(pat, blocked) ==
  get_request_pattern_analysis(pat) > 6000 \/ Cardinality(blocked) > 3

is_domain_blocked(domain, blocked) == domain \in blocked

(***************************************************************************)
(* Strategy selection, advanced_fetch.py.                                  *)
(***************************************************************************)
Contains(s, x) == x \in Range(s)

\* list.insert(0, x)
InsertFront(s, x) == <<x>> \o s

\* list.insert(1, x)
InsertSecond(s, x) == IF s = <<>> THEN <<x>> ELSE <<s[1], x>> \o Tail(s)

BaseStrategies(cfg, tor) ==
  CASE cfg = "direct" -> <<"direct">>
    [] cfg = "free_proxy" -> <<"proxy", "direct">>
    [] cfg = "tor" -> IF tor THEN <<"tor", "proxy", "direct">> ELSE <<"proxy", "direct">>
    [] cfg = "mixed" -> IF tor THEN <<"tor", "proxy", "direct">> ELSE <<"proxy", "direct">>
    [] cfg = "aggressive" ->
         IF tor THEN <<"stealth_browser", "free_antibot", "tor", "proxy", "direct">>
         ELSE <<"stealth_browser", "free_antibot", "proxy", "direct">>
    [] OTHER -> <<"proxy", "direct">>

AdjustForRisk(s, pat, tor) ==
  IF get_request_pattern_analysis(pat) > 7000
    THEN LET s1 == IF ~Contains(s, "stealth_browser") THEN InsertFront(s, "stealth_browser") ELSE s
         IN IF ~Contains(s1, "tor") /\ tor THEN InsertSecond(s1, "tor") ELSE s1
    ELSE s

AdjustForBlockedDomain(s, domain, blocked) ==
  IF is_domain_blocked(domain, blocked) /\ ~Contains(s, "stealth_browser")
    THEN InsertFront(s, "stealth_browser")
    ELSE s

AdjustForRotation(s, pat, blocked, tor) ==
  IF should_rotate_identity(pat, blocked) /\ ~Contains(s, "tor") /\ tor
    THEN InsertFront(s, "tor")
    ELSE s

_get_fetch_strategies(cfg, tor, pat, domain, blocked) ==
  AdjustForRotation(
    AdjustForBlockedDomain(
      AdjustForRisk(BaseStrategies(cfg, tor), pat, tor),
      domain, blocked),
    pat, blocked, tor)


(***************************************************************************)
(* State of the fetch orchestrator.                                        *)
(***************************************************************************)
VARIABLES
  rotation_strategy,  \* IP_ROTATION_STRATEGY of the process environment
  rotation_interval,  \* IP_ROTATION_INTERVAL of the process environment
  tor_available,      \* TorRotator.available
  LAST_HIT,           \* _LAST_HIT: host -> age of the last pass of the limiter
  CACHE,              \* _CACHE: url -> (age of the timestamp, html, status)
  blocked_domains,    \* antibot.blocked_domains
  call,               \* the acquisition calls in flight, each at its suspension point
  calls_made,         \* history: acquisition calls made so far
  starts,             \* history: host -> age of the start of the last fetch
  releases,           \* history: per host, the age the last pass of the limiter
                      \* had when the limiter let the next call pass
  ledger,             \* history: per url, the age of the start of the last call,
                      \* the fetches that call has issued (2 stands for more) and
                      \* the age of the last return of a freshly fetched page
  subject,            \* the (html, status) whose classifications are watched
  verdict,            \* history: the first and the latest block_info the
                      \* classifier returned for subject
  job,                \* the last run of an extraction function: its inputs and
                      \* what it handed to its caller
  svc                 \* the other services of the process: the proxy pool, the
                      \* Tor controller, the headless browser, the job queue
                      \* with its worker, and the stored pipeline

vars == <<rotation_strategy, rotation_interval, tor_available, LAST_HIT,
          CACHE, blocked_domains, call, calls_made, starts, releases, ledger,
          subject, verdict, job, svc>>

\* what the fetch orchestrator leaves alone
extraction == <<subject, verdict, job, svc>>

Urls == {"", "https://jobs.example.com/a"}

\* urlparse(url).netloc
netloc(url) == IF url = "" THEN "" ELSE "jobs.example.com"

Hosts == {netloc(u) : u \in Urls}

RotationStrategies == {"direct", "free_proxy", "tor", "mixed", "aggressive"}

RotationIntervals == {0, 5}

\* risk scores 0.0, 0.6000000000000001 and 0.8999999999999999
Patterns ==
  {Pattern(0, FALSE, FALSE), Pattern(15, TRUE, TRUE), Pattern(25, TRUE, TRUE)}

Response(html, status) == [html |-> html, status |-> status]

\* what an executor can hand back: (html, status)
Responses ==
  { Response(Html(2000, {}, FALSE, 0, 0), 200),
    Response(EmptyHtml, 403),
    Response(EmptyHtml, 0),
    Response(Html(2000, {"cloudflare"}, FALSE, 0, 0), 200),
    Response(Html(500, {}, TRUE, 0, 0), 200) }

\* the browser executors answer (page_source, 200) or ("", 0); the free
\* anti-bot chain drops pages with its own block indicators
ExecutorResponses(strategy) ==
  CASE strategy = "stealth_browser" -> {r \in Responses : r.status \in {0, 200}}
    [] strategy = "free_antibot" ->
         {r \in Responses : r.status \in {0, 200} /\ "cloudflare" \notin r.html.markers}
    [] OTHER -> Responses

\* least time an executor takes from its call to its answer r, in ticks:
\* _fetch_direct sleeps delay_before_request >= 1.0 s and, after a response,
\* delay_after_request >= 0.5 s; the browser sleeps >= 3.0 s before it reads
\* the page; a failing Tor, browser or anti-bot executor returns at once
MinDuration(strategy, r) ==
  CASE strategy \in {"direct", "proxy"} -> IF r.status = 0 THEN 2 ELSE 3
    [] strategy = "stealth_browser" -> IF r.status = 0 THEN 0 ELSE 6
    [] OTHER -> 0

RECURSIVE MaxOver(_)
MaxOver(S) ==
  IF S = {} THEN 0
  ELSE LET x == CHOOSE y \in S : TRUE
           m == MaxOver(S \ {x})
       IN IF x > m THEN x ELSE m

\* the executor has answered by then
MaxDuration(strategy) ==
  MaxOver({MinDuration(strategy, r) : r \in ExecutorResponses(strategy)}) + MaxExtra

\* r can arrive now, t ticks after the call of the executor
Arrives(strategy, r, t) ==
  /\ r \in ExecutorResponses(strategy)
  /\ t >= MinDuration(strategy, r)
  /\ t <= MinDuration(strategy, r) + MaxExtra

\* a variant that sleeps the same time before every attempt
BlockDelayFlat(attempt) == 4

\* delay = (attempt + 1) * 2.0
BlockDelay(attempt) == (attempt + 1) * 4

\* 1.0 + attempt * 0.5
ErrorDelay(attempt) == 2 + attempt

NoEntry == [present |-> FALSE, age |-> 0, html |-> EmptyHtml, status |-> 0]

NoResult == [html |-> EmptyHtml, status |-> 0, reason |-> None, via |-> None]

Event(ev, strategy, attempt, type) ==
  [ev |-> ev, strategy |-> strategy, attempt |-> attempt, type |-> type]

\* ages are kept up to the interval they are compared with: older ones are all alike
NoLedger == [since |-> cache_ttl + 1, fetched |-> 0, success |-> cache_ttl + 1]

NoPrior == [recent |-> FALSE, fetched |-> 0, success |-> FALSE]

\* t is the time left of a sleep, or the time an executor has been running;
\* trace, fetches, prior and domain_was_blocked are history: the last two
\* events of the call, the executor fetches it has issued, what the ledger
\* said of its url when it began (a call within the TTL before, the fetches
\* of that call, a freshly fetched page returned within the TTL before), and
\* whether its domain was recorded as blocked when its strategies were selected;
\* delays are the sleeps the loop has made between its passes so far
IdleCall ==
  [pc |-> "idle", url |-> "", max_retries |-> 0, request_count |-> 0,
   strategies |-> <<>>, attempt |-> 0, t |-> 0, block_info |-> NoBlock,
   last_error |-> None, result |-> NoResult, outcome |-> None,
   trace |-> <<>>, fetches |-> 0, prior |-> NoPrior,
   domain_was_blocked |-> FALSE, delays |-> <<>>]

\* nothing classified yet
NoVerdict == [seen |-> 0, first |-> NoBlock, last |-> NoBlock, interleaved |-> FALSE]

\* no extraction function has run
NoJob == [via |-> None]

\* none of the other services is in use
NoServices == [running |-> None]

FetchInit ==
  /\ rotation_strategy \in RotationStrategies
  /\ rotation_interval \in RotationIntervals
  /\ tor_available \in BOOLEAN
  /\ LAST_HIT = [h \in Hosts |-> rate_limit_delay]
  /\ CACHE = [u \in Urls |-> NoEntry]
  /\ blocked_domains = {}
  /\ call = [c \in Calls |-> IdleCall]
  /\ calls_made = 0
  /\ starts = [h \in Hosts |-> rate_limit_delay]
  /\ releases = [h \in Hosts |-> rate_limit_delay]
  /\ ledger = [u \in Urls |-> NoLedger]

\* no classification is watched and no extraction function has run
ExtractionIdle ==
  /\ subject = Response(EmptyHtml, 0)
  /\ verdict = NoVerdict
  /\ job = NoJob
  /\ svc = NoServices

(***************************************************************************)
(* Cache, advanced_fetch.py.                                               *)
(***************************************************************************)
\* a variant with the comparison turned round
FreshInverted(entry) == entry.age >= cache_ttl

\* time.time() - timestamp <= self.cache_ttl
Fresh(entry) == entry.age <= cache_ttl

\* the (html, status) _cache_get returns, or a miss
_cache_get(cache, url) ==
  IF cache[url].present /\ Fresh(cache[url]) THEN cache[url] ELSE NoEntry

\* _CACHE.pop(url, None) of a stale entry
CacheAfterGet(cache, url) ==
  IF cache[url].present /\ ~Fresh(cache[url])
    THEN [cache EXCEPT ![url] = NoEntry]
    ELSE cache

_cache_put(cache, url, html, status) ==
  [cache EXCEPT ![url] = [present |-> TRUE, age |-> 0, html |-> html, status |-> status]]

(***************************************************************************)
(* extract_job_advanced, advanced_extractor.py: what the entry point does  *)
(* with the triple fetch_with_rotation returns.  parsed is whether         *)
(* parse_job_from_html returns rather than raises.                         *)
(***************************************************************************)
\* a variant that tests the html alone and lets a reported block through
ExtractOutcomeHtmlOnly(result, parsed) ==
  IF result.html.size = 0 THEN "RuntimeError"
  ELSE IF parsed THEN "job"
  ELSE "RuntimeError"

ExtractOutcome(result, parsed) ==
  IF result.html.size = 0 \/ result.reason # None THEN "RuntimeError"
  ELSE IF parsed THEN "job"
  ELSE "RuntimeError"

\* fetch_with_rotation returns (html, status, reason) to extract_job_advanced,
\* and its locals are gone
Return(rec, html, status, reason, via, parsed) ==
  LET res == [html |-> html, status |-> status, reason |-> reason, via |-> via]
  IN [rec EXCEPT !.pc = "returned", !.result = res,
                 !.outcome = ExtractOutcome(res, parsed),
                 !.request_count = 0, !.strategies = <<>>, !.attempt = 0, !.t = 0,
                 !.block_info = NoBlock, !.last_error = None, !.delays = <<>>]

CurrentStrategy(rec) == rec.strategies[(rec.attempt % Len(rec.strategies)) + 1]

\* the history of a call keeps its last two events
Last2(s) == IF Len(s) > 2 THEN SubSeq(s, Len(s) - 1, Len(s)) ELSE s

Log(rec, e) ==
  [rec EXCEPT !.trace = Last2(Append(@, e)),
              !.fetches = IF e.ev \in {"fetch", "fallback"} THEN @ + 1 ELSE @]

(***************************************************************************)
(* fetch_with_rotation, advanced_fetch.py.                                 *)
(***************************************************************************)
\* one pass of "for attempt in range(max_retries)" from the head of the loop
\* to the executor's await; with IP_ROTATION_INTERVAL = 0 the test
\* request_count % rotation_interval raises inside the try block
BeginAttempt(rec, k, interval) ==
  LET r0 == [rec EXCEPT !.attempt = k]
      strategy == CurrentStrategy(r0)
  IN IF interval = 0
       THEN LET r1 == [Log(r0, Event("raised", strategy, k, None))
                         EXCEPT !.last_error = "integer division or modulo by zero"]
            IN IF k < rec.max_retries - 1
                 THEN [r1 EXCEPT !.pc = "backoff", !.t = ErrorDelay(k),
                                 !.delays = Append(@, ErrorDelay(k))]
                 ELSE Return(r1, EmptyHtml, 0, r1.last_error, "exhausted", FALSE)
       ELSE [Log(r0, Event("fetch", strategy, k, None)) EXCEPT !.pc = "fetching", !.t = 0]

\* from the return of _respect_rate_limit to the first await of the loop
Enter(rec, pat, cfg, interval, tor, blocked) ==
  BeginAttempt(
    [rec EXCEPT !.request_count = @ + 1,
                !.strategies = _get_fetch_strategies(cfg, tor, pat, netloc(rec.url), blocked),
                !.domain_was_blocked = is_domain_blocked(netloc(rec.url), blocked)],
    0, interval)

\* last_error = block_info.get("type", "blocked")
\* a variant that leaves last_error as it was
RecordBlockNot(rec, block_info) == rec

RecordBlock(rec, block_info) == [rec EXCEPT !.last_error = block_info.type]

\* the test before the stealth-browser fallback
\* a variant that tests for the remediation of an empty response
ShouldFallBackOnRetry(block_info, strategy) ==
  /\ block_info.suggested_action = "retry_with_browser"
  /\ strategy # "stealth_browser"

ShouldFallBack(block_info, strategy) ==
  /\ block_info.suggested_action = "use_browser_automation"
  /\ strategy # "stealth_browser"

\* a variant whose loop makes one pass too many
EndAttemptOneMore(rec) ==
  IF rec.attempt < rec.max_retries
    THEN [rec EXCEPT !.pc = "backoff", !.t = BlockDelay(rec.attempt),
                     !.delays = Append(@, BlockDelay(rec.attempt))]
    ELSE Return(rec, EmptyHtml, 0, rec.last_error, "exhausted", FALSE)

\* the end of a pass that did not return: sleep before the next one, or fall
\* out of the loop and return ("", 0, last_error)
EndAttempt(rec) ==
  IF rec.attempt < rec.max_retries - 1
    THEN [rec EXCEPT !.pc = "backoff", !.t = BlockDelay(rec.attempt),
                     !.delays = Append(@, BlockDelay(rec.attempt))]
    ELSE Return(rec, EmptyHtml, 0, rec.last_error, "exhausted", FALSE)

\* an executor is called in the step from old to new
Began(old, new) == new.pc \in {"fetching", "fallback"} /\ old.pc # new.pc

\* the step from old to new returns a freshly fetched page
Succeeded(old, new) ==
  /\ old.pc \in {"fetching", "fallback"}
  /\ new.pc = "returned"
  /\ new.result.via \in {"attempt", "fallback"}

\* the step of call c leaves it as new: keep the histories
Note(c, new) ==
  /\ call' = [call EXCEPT ![c] = new]
  /\ starts' = IF Began(call[c], new) THEN [starts EXCEPT ![netloc(new.url)] = 0] ELSE starts
  /\ ledger' = [ledger EXCEPT ![new.url] =
                  [since |-> IF call[c].pc \in {"idle", "returned"} THEN 0 ELSE @.since,
                   fetched |-> Min((IF call[c].pc \in {"idle", "returned"} THEN 0 ELSE @.fetched)
                                   + (IF Began(call[c], new) THEN 1 ELSE 0), 2),
                   success |-> IF Succeeded(call[c], new) THEN 0 ELSE @.success]]

NoteRelease(h) == releases' = [releases EXCEPT ![h] = LAST_HIT[h]]

\* a call of extract_job_advanced(url, max_retries) up to its first suspension;
\* it is followed in the first place that is free
Acquire(c, limit, url, n, pat, parsed) ==
  /\ call[c].pc \in {"idle", "returned"}
  /\ \A b \in 1..(c - 1) : call[b].pc \notin {"idle", "returned"}
  /\ calls_made < limit
  /\ calls_made' = calls_made + 1
  /\ LET rec == [IdleCall EXCEPT
                  !.url = url, !.max_retries = n,
                  !.prior = [recent |-> ledger[url].since <= cache_ttl,
                             fetched |-> ledger[url].fetched,
                             success |-> ledger[url].success <= cache_ttl]]
         host == netloc(url)
         cached == _cache_get(CACHE, url)
         gap == LAST_HIT[host]
     IN IF url = ""
          THEN /\ call' = [call EXCEPT ![c] = [rec EXCEPT !.pc = "returned", !.outcome = "ValueError",
                                                           !.prior = NoPrior]]
               /\ UNCHANGED <<CACHE, LAST_HIT, releases, starts, ledger>>
        ELSE IF cached.present
          THEN /\ Note(c, Return(rec, cached.html, cached.status,
                                 detect_blocking(cached.html, cached.status).type,
                                 "cache", parsed))
               /\ UNCHANGED <<CACHE, LAST_HIT, releases>>
        ELSE IF gap < rate_limit_delay
          THEN /\ Note(c, [rec EXCEPT !.pc = "rate_limit", !.t = rate_limit_delay - gap])
               /\ CACHE' = CacheAfterGet(CACHE, url)
               /\ UNCHANGED <<LAST_HIT, releases>>
        ELSE /\ Note(c, Enter(rec, pat, rotation_strategy, rotation_interval,
                              tor_available, blocked_domains))
             /\ CACHE' = CacheAfterGet(CACHE, url)
             /\ LAST_HIT' = [LAST_HIT EXCEPT ![host] = 0]
             /\ NoteRelease(host)
  /\ UNCHANGED <<rotation_strategy, rotation_interval, tor_available, blocked_domains>>
  /\ UNCHANGED extraction

\* asyncio.sleep of _respect_rate_limit is over: _LAST_HIT[host] = time.time()
RateLimitWake(c, pat) ==
  /\ call[c].pc = "rate_limit"
  /\ call[c].t = 0
  /\ Note(c, Enter(call[c], pat, rotation_strategy, rotation_interval,
                   tor_available, blocked_domains))
  /\ LAST_HIT' = [LAST_HIT EXCEPT ![netloc(call[c].url)] = 0]
  /\ NoteRelease(netloc(call[c].url))
  /\ UNCHANGED <<rotation_strategy, rotation_interval, tor_available, CACHE,
                 blocked_domains, calls_made>>
  /\ UNCHANGED extraction

\* the executor of the current attempt hands back r: classify, then succeed,
\* fall back to the stealth browser, back off or give up
FetchDone(c, r, parsed) ==
  /\ call[c].pc = "fetching"
  /\ Arrives(CurrentStrategy(call[c]), r, call[c].t)
  /\ LET rec == call[c]
         strategy == CurrentStrategy(rec)
         block_info == detect_blocking(r.html, r.status)
         seen == Log(rec, Event("classified", strategy, rec.attempt, block_info.type))
     IN IF ~block_info.blocked /\ r.html.size > 0
          THEN /\ Note(c, Return(seen, r.html, r.status, None, "attempt", parsed))
               /\ CACHE' = _cache_put(CACHE, rec.url, r.html, r.status)
               /\ UNCHANGED blocked_domains
        ELSE IF block_info.blocked
          THEN /\ blocked_domains' = blocked_domains \cup {netloc(rec.url)}
               /\ CACHE' = CACHE
               /\ IF ShouldFallBack(block_info, strategy)
                    THEN Note(c, [Log(seen, Event("fallback", "stealth_browser", rec.attempt, None))
                                    EXCEPT !.pc = "fallback", !.t = 0, !.block_info = block_info])
                    ELSE Note(c, EndAttempt(RecordBlock(seen, block_info)))
        ELSE /\ Note(c, EndAttempt(seen))
             /\ UNCHANGED <<CACHE, blocked_domains>>
  /\ UNCHANGED <<rotation_strategy, rotation_interval, tor_available, LAST_HIT,
                 releases, calls_made>>
  /\ UNCHANGED extraction

\* the stealth browser called for a blocked attempt hands back r
FallbackDone(c, r, parsed) ==
  /\ call[c].pc = "fallback"
  /\ Arrives("stealth_browser", r, call[c].t)
  /\ LET rec == call[c]
     IN IF r.html.size > 0 /\ r.html.size > FallbackMinLen
          THEN /\ Note(c, Return(rec, r.html, r.status, None, "fallback", parsed))
               /\ CACHE' = _cache_put(CACHE, rec.url, r.html, r.status)
          ELSE /\ Note(c, EndAttempt(RecordBlock(rec, rec.block_info)))
               /\ CACHE' = CACHE
  /\ UNCHANGED <<rotation_strategy, rotation_interval, tor_available, LAST_HIT,
                 blocked_domains, releases, calls_made>>
  /\ UNCHANGED extraction

\* asyncio.sleep between two attempts is over: the next pass of the loop
BackoffWake(c) ==
  /\ call[c].pc = "backoff"
  /\ call[c].t = 0
  /\ Note(c, BeginAttempt(call[c], call[c].attempt + 1, rotation_interval))
  /\ UNCHANGED <<rotation_strategy, rotation_interval, tor_available, LAST_HIT,
                 CACHE, blocked_domains, releases, calls_made>>
  /\ UNCHANGED extraction

Sleeping(rec) == rec.pc \in {"rate_limit", "backoff"}

Running(rec) == rec.pc \in {"fetching", "fallback"}

RunningStrategy(rec) == IF rec.pc = "fallback" THEN "stealth_browser" ELSE CurrentStrategy(rec)

\* half a second passes: every age grows, every sleep shortens.  A sleep that
\* is over ends, and an executor that has used its time answers, before the
\* clock moves on; a call that has returned is over
Tick ==
  /\ \A c \in Calls : Sleeping(call[c]) => call[c].t > 0
  /\ \A c \in Calls : Running(call[c]) => call[c].t < MaxDuration(RunningStrategy(call[c]))
  /\ call' = [c \in Calls |->
                IF Sleeping(call[c]) THEN [call[c] EXCEPT !.t = @ - 1]
                ELSE IF Running(call[c]) THEN [call[c] EXCEPT !.t = @ + 1]
                ELSE IdleCall]
  /\ LAST_HIT' = [h \in Hosts |-> Min(LAST_HIT[h] + 1, rate_limit_delay)]
  /\ CACHE' = [u \in Urls |->
                 IF CACHE[u].present
                   THEN [CACHE[u] EXCEPT !.age = Min(@ + 1, cache_ttl + 1)]
                   ELSE CACHE[u]]
  /\ starts' = [h \in Hosts |-> Min(starts[h] + 1, rate_limit_delay)]
  /\ ledger' = [u \in Urls |->
                  [ledger[u] EXCEPT !.since = Min(@ + 1, cache_ttl + 1),
                                    !.success = Min(@ + 1, cache_ttl + 1)]]
  /\ UNCHANGED <<rotation_strategy, rotation_interval, tor_available,
                 blocked_domains, calls_made, releases>>
  /\ UNCHANGED extraction

Step(c, limit) ==
  \/ \E url \in Urls, n \in 1..MaxRetries, pat \in Patterns, parsed \in BOOLEAN :
       Acquire(c, limit, url, n, pat, parsed)
  \/ \E pat \in Patterns : RateLimitWake(c, pat)
  \/ \E r \in Responses, parsed \in BOOLEAN : FetchDone(c, r, parsed)
  \/ \E r \in Responses, parsed \in BOOLEAN : FallbackDone(c, r, parsed)
  \/ BackoffWake(c)

\* one worker makes its acquisition calls one after the other
FetchNext == Step(1, MaxCalls) \/ Tick

\* the module is imported and nothing has been extracted
Init == FetchInit /\ ExtractionIdle

Spec == Init /\ [][FetchNext]_vars

\* request handlers make acquisition calls that overlap
ConcurrentNext == (\E c \in Calls : Step(c, MaxOverlapping)) \/ Tick

\* the deployment the overlapping calls are followed in: every executor in
\* use, no Tor
ConcurrentInit ==
  /\ FetchInit
  /\ rotation_strategy = "aggressive"
  /\ rotation_interval = 5
  /\ ~tor_available

InitConcurrent == ConcurrentInit /\ ExtractionIdle

SpecConcurrent == InitConcurrent /\ [][ConcurrentNext]_vars

\* max_retries: int = 3 of fetch_with_rotation
DefaultRetries == 3

\* the deployment the default retries are followed in: every executor in use,
\* no Tor, IP_ROTATION_INTERVAL 5 or the 0 every attempt raises with
InitRetries ==
  /\ FetchInit
  /\ rotation_strategy = "aggressive"
  /\ rotation_interval \in {0, 5}
  /\ ~tor_available
  /\ ExtractionIdle

\* one worker makes its acquisition calls, with one attempt or with the
\* default max_retries
RetriesNext ==
  \/ \E url \in Urls, n \in {1, DefaultRetries}, pat \in Patterns, parsed \in BOOLEAN :
       Acquire(1, MaxCalls, url, n, pat, parsed)
  \/ \E pat \in Patterns : RateLimitWake(1, pat)
  \/ \E r \in Responses, parsed \in BOOLEAN : FetchDone(1, r, parsed)
  \/ \E r \in Responses, parsed \in BOOLEAN : FallbackDone(1, r, parsed)
  \/ BackoffWake(1)
  \/ Tick

SpecRetries == InitRetries /\ [][RetriesNext]_vars

(***************************************************************************)
(* Text.  A Python str is the sequence of its characters, so that lower(), *)
(* strip(), title(), split() and the regular expressions of the extraction *)
(* code are computed on it.                                                *)
(***************************************************************************)
Lowers == <<"a", "b", "c", "d", "e", "f", "g", "h", "i", "j", "k", "l", "m", "n", "o", "p", "q", "r", "s", "t", "u", "v", "w", "x", "y", "z">>

Uppers == <<"A", "B", "C", "D", "E", "F", "G", "H", "I", "J", "K", "L", "M", "N", "O", "P", "Q", "R", "S", "T", "U", "V", "W", "X", "Y", "Z">>

LowerChar(ch) ==
  IF ch \in Range(Uppers) THEN Lowers[CHOOSE i \in 1..Len(Uppers) : Uppers[i] = ch]
  ELSE ch

UpperChar(ch) ==
  IF ch \in Range(Lowers) THEN Uppers[CHOOSE i \in 1..Len(Lowers) : Lowers[i] = ch]
  ELSE ch

\* str.lower()
str_lower(s) == [i \in 1..Len(s) |-> LowerChar(s[i])]

\* str.title(): a letter after a non-letter is upper-cased, any other lowered
str_title(s) ==
  [i \in 1..Len(s) |->
     IF i = 1 \/ s[IF i = 1 THEN 1 ELSE i - 1] \notin Range(Lowers \o Uppers)
       THEN UpperChar(s[i]) ELSE LowerChar(s[i])]

RECURSIVE str_lstrip(_)
str_lstrip(s) == IF s # <<>> /\ Head(s) = " " THEN str_lstrip(Tail(s)) ELSE s

RECURSIVE str_rstrip(_)
str_rstrip(s) ==
  IF s # <<>> /\ s[Len(s)] = " " THEN str_rstrip(SubSeq(s, 1, Len(s) - 1)) ELSE s

\* str.strip()
str_strip(s) == str_rstrip(str_lstrip(s))

StartsWith(s, p) == Len(s) >= Len(p) /\ SubSeq(s, 1, Len(p)) = p

EndsWith(s, p) == Len(s) >= Len(p) /\ SubSeq(s, Len(s) - Len(p) + 1, Len(s)) = p

\* s.split(sep)[0]
RECURSIVE FirstPart(_, _)
FirstPart(s, sep) ==
  IF s = <<>> \/ Head(s) = sep THEN <<>> ELSE <<Head(s)>> \o FirstPart(Tail(s), sep)

\* Python's None where a str is expected
PyNone == <<"None">>

\* a key that is not in the dict
Absent == <<"absent">>

\* not v, for v a str or None found under a key or missing
Falsy(v) == v \in {Absent, PyNone, <<>>}

(***************************************************************************)
(* Employment-type normalization, extractor.py and tools/job_scraper.py.   *)
(***************************************************************************)
\* self.employment_type_map
employment_type_map ==
  << <<<<"f", "u", "l", "l", " ", "t", "i", "m", "e">>, "full-time">>,
     <<<<"f", "u", "l", "l", "t", "i", "m", "e">>, "full-time">>,
     <<<<"p", "a", "r", "t", " ", "t", "i", "m", "e">>, "part-time">>,
     <<<<"p", "a", "r", "t", "t", "i", "m", "e">>, "part-time">>,
     <<<<"c", "o", "n", "t", "r", "a", "c", "t", "o", "r">>, "contract">>,
     <<<<"c", "o", "n", "s", "u", "l", "t", "i", "n", "g">>, "contract">>,
     <<<<"i", "n", "t", "e", "r", "n">>, "internship">>,
     <<<<"t", "e", "m", "p", "o", "r", "a", "r", "y">>, "temporary">>,
     <<<<"f", "r", "e", "e", "l", "a", "n", "c", "e">>, "freelance">> >>

\* the values of the closed enum, as the str and as the name of the value
EmploymentTypes ==
  << <<<<"f", "u", "l", "l", "-", "t", "i", "m", "e">>, "full-time">>,
     <<<<"p", "a", "r", "t", "-", "t", "i", "m", "e">>, "part-time">>,
     <<<<"c", "o", "n", "t", "r", "a", "c", "t">>, "contract">>,
     <<<<"t", "e", "m", "p", "o", "r", "a", "r", "y">>, "temporary">>,
     <<<<"i", "n", "t", "e", "r", "n", "s", "h", "i", "p">>, "internship">>,
     <<<<"f", "r", "e", "e", "l", "a", "n", "c", "e">>, "freelance">> >>

\* table.get(s, default)
Lookup(table, s, default) ==
  IF \E i \in 1..Len(table) : table[i][1] = s
    THEN table[CHOOSE i \in 1..Len(table) : table[i][1] = s][2]
    ELSE default

_normalize_employment_type(emp_type) ==
  LET s == str_strip(str_lower(emp_type))
  IN IF s = <<>> THEN None
     ELSE Lookup(employment_type_map, s, Lookup(EmploymentTypes, s, None))

(***************************************************************************)
(* The classifier on its own: it is called for any page and status, in any *)
(* order, between calls of antibot.mark_domain_blocked.                    *)
(***************************************************************************)
\* the BLOCK_MARKERS a page may contain
\* "please enable javascript" is a block marker and a js_pattern
Pages ==
  {EmptyHtml, Html(50, {}, FALSE, 0, 0)} \cup
  { Html(2000, ms, js, h[1], h[2]) :
      ms \in { {}, {"cloudflare"}, {"captcha"}, {"access denied"}, {"rate limit"},
               {"please enable javascript"}, {"please wait"},
               {"cloudflare", "captcha", "access denied", "blocked"} },
      js \in BOOLEAN,
      \* (hidden inputs, display:none elements) of the page
      h \in {<<0, 0>>, <<11, 0>>, <<0, 6>>} }

ClassifierInputs ==
  { r \in {Response(html, status) : html \in Pages,
                                 status \in {0, 200, 403, 404, 429, 503}} :
      "please enable javascript" \in r.html.markers => r.html.js }

\* a variant that takes every page of a domain recorded as blocked for a block
_blockedByHistory(html, status) ==
  IF blocked_domains # {} /\ ~detect_blocking(html, status).blocked
    THEN BlockInfo("generic_block", 2, {"blocked"}, "retry_with_different_strategy")
    ELSE detect_blocking(html, status)

\* IPRotationManager._blocked: antibot.detect_blocking(html, status, url)
_blocked(html, status) == detect_blocking(html, status)

\* a call of the classifier
Classify(html, status) ==
  /\ LET info == _blocked(html, status)
     IN verdict' =
          IF Response(html, status) = subject
            THEN [verdict EXCEPT !.seen = Min(@ + 1, 2),
                                 !.first = IF verdict.seen = 0 THEN info ELSE @,
                                 !.last = info]
            ELSE [verdict EXCEPT !.interleaved = @ \/ verdict.seen > 0]
  /\ UNCHANGED <<rotation_strategy, rotation_interval, tor_available, LAST_HIT,
                 CACHE, blocked_domains, call, calls_made, starts, releases, ledger,
                 subject, job, svc>>

\* antibot.mark_domain_blocked(domain)
mark_domain_blocked(domain) ==
  /\ blocked_domains' = blocked_domains \cup {domain}
  /\ verdict' = [verdict EXCEPT !.interleaved = @ \/ verdict.seen > 0]
  /\ UNCHANGED <<rotation_strategy, rotation_interval, tor_available, LAST_HIT,
                 CACHE, call, calls_made, starts, releases, ledger, subject, job,
                 svc>>

\* the process of the fetch orchestrator at rest
FetchIdle ==
  /\ FetchInit
  /\ rotation_strategy = "direct"
  /\ rotation_interval = 5
  /\ ~tor_available

ClassifierInit ==
  /\ FetchIdle
  /\ subject \in ClassifierInputs
  /\ verdict = NoVerdict
  /\ job = NoJob
  /\ svc = NoServices

ClassifierNext ==
  \/ \E r \in ClassifierInputs : Classify(r.html, r.status)
  \/ \E domain \in Hosts : mark_domain_blocked(domain)

SpecClassifier == ClassifierInit /\ [][ClassifierNext]_vars

(***************************************************************************)
(* Extraction records.  A dict an extraction method returns is abstracted  *)
(* to its title, company, description, employment_type, skills and         *)
(* qualifications.  A description is abstracted to what the code reads of  *)
(* it: its length, how much of that is markup, its first line, and the     *)
(* employment type its text mentions.                                      *)
(***************************************************************************)
Desc(len, first_line, mentions) ==
  [present |-> TRUE, len |-> len, markup |-> 0, first_line |-> first_line,
   mentions |-> mentions]

\* no "description" key
NoDesc ==
  [present |-> FALSE, len |-> 0, markup |-> 0, first_line |-> <<>>, mentions |-> None]

Source(name, title, company, description, employment_type, skills, qualifications) ==
  [name |-> name, title |-> title, company |-> company, description |-> description,
   employment_type |-> employment_type, skills |-> skills,
   qualifications |-> qualifications]

\* a method that found nothing: {}
EmptySource(name) == Source(name, Absent, Absent, NoDesc, Absent, <<>>, <<>>)

ListFields == {"skills", "qualifications"}

Fields == {"title", "company", "employment_type", "description"} \cup ListFields

\* out.setdefault(k, []) and "if item not in out[k]: out[k].append(item)"
RECURSIVE AppendNew(_, _)
AppendNew(out, items) ==
  IF items = <<>> THEN out
  ELSE AppendNew(IF Contains(out, Head(items)) THEN out ELSE Append(out, Head(items)),
                 Tail(items))

RECURSIVE MergeLists(_, _, _)
MergeLists(sources, k, out) ==
  IF sources = <<>> THEN out
  ELSE MergeLists(Tail(sources), k, AppendNew(out, Head(sources)[k]))

\* the first of the sources, in their order, that is among taken; an
\* empty source named None when there is none
FirstOf(sources, taken) ==
  LET I == {i \in 1..Len(sources) : sources[i] \in taken}
  IN IF I = {} THEN EmptySource(None)
     ELSE sources[CHOOSE i \in I : \A j \in I : i <= j]

\* SimpleJobExtractor._merge: a scalar is taken from the first source whose
\* value is not None, a list is the items of all sources in their order
_merge(sources) ==
  LET Taken(src, k) ==
        IF k = "description" THEN src[k].present
        ELSE IF k \in ListFields THEN src[k] # <<>>
        ELSE src[k] \notin {Absent, PyNone}
      first == [k \in Fields |->
                  FirstOf(sources, {src \in Range(sources) : Taken(src, k)})]
  IN [data |->
        [title |-> first["title"].title,
         company |-> first["company"].company,
         employment_type |-> first["employment_type"].employment_type,
         description |-> first["description"].description,
         skills |-> MergeLists(sources, "skills", <<>>),
         qualifications |-> MergeLists(sources, "qualifications", <<>>)],
      field_sources |-> [k \in Fields |-> first[k].name]]

\* no "provenance" key
NoProvenance ==
  [present |-> FALSE, extraction_method |-> None, confidence_score |-> 0,
   field_sources |-> _merge(<<>>).field_sources, warnings |-> <<>>]

\* nothing extracted: {}
NoData ==
  [title |-> Absent, company |-> Absent, employment_type |-> Absent,
   description |-> NoDesc, skills |-> <<>>, qualifications |-> <<>>,
   source_url |-> Absent, provenance |-> NoProvenance]

\* a source is truthy when it is not the empty dict
Found(src) == src # EmptySource(src.name)

\* SimpleJobExtractor._primary_method
_primary_method(a, b, c) ==
  IF Found(a) THEN "json-ld"
  ELSE IF Found(b) THEN "site-patterns"
  ELSE IF Found(c) THEN "profiles"
  ELSE "fallback"

\* SimpleJobExtractor._confidence, in hundredths
_confidence(a, b, c) ==
  IF Found(a) THEN 95 ELSE IF Found(b) THEN 90 ELSE IF Found(c) THEN 75 ELSE 50

\* the title without a job-board prefix and suffix:
\*   re.sub(r"^(Job:|Position:|Role:)\s*", "", title, flags=re.IGNORECASE)
\*   re.sub(r"\s*-\s*(Job|Position|Role)$", "", title, flags=re.IGNORECASE)
\* and then title.strip()
CleanTitle(title) ==
  LET words == {<<"j", "o", "b">>, <<"p", "o", "s", "i", "t", "i", "o", "n">>,
                <<"r", "o", "l", "e">>}
      Pre == {p \in words : StartsWith(str_lower(title), p \o <<":">>)}
      t1 == IF Pre = {} THEN title
            ELSE str_lstrip(SubSeq(title, Len(CHOOSE p \in Pre : TRUE) + 2, Len(title)))
      Before(p) == str_rstrip(SubSeq(t1, 1, Len(t1) - Len(p)))
      Suf == {p \in words : EndsWith(str_lower(t1), p) /\ EndsWith(Before(p), <<"-">>)}
      t2 == IF Suf = {} THEN t1
            ELSE LET rest == Before(CHOOSE p \in Suf : TRUE)
                 IN str_rstrip(SubSeq(rest, 1, Len(rest) - 1))
  IN str_strip(t2)

\* the employment type enhance_job_data reads in a description, as a value
TypeAsText(name) ==
  CASE name = "full-time" -> <<"f", "u", "l", "l", "-", "t", "i", "m", "e">>
    [] name = "part-time" -> <<"p", "a", "r", "t", "-", "t", "i", "m", "e">>
    [] name = "contract" -> <<"c", "o", "n", "t", "r", "a", "c", "t">>
    [] name = "internship" -> <<"i", "n", "t", "e", "r", "n", "s", "h", "i", "p">>
    [] OTHER -> Absent

\* s.find(sub) >= 0
InString(s, sub) ==
  \E i \in 1..(Len(s) - Len(sub) + 1) : SubSeq(s, i, i + Len(sub) - 1) = sub

\* urlparse(url).hostname or "": a URL is modelled by its host name
hostname(url) == IF Falsy(url) THEN <<>> ELSE url

\* get_site_key(url), for the one job board among the modelled hosts
get_site_key(url) == IF InString(hostname(url), <<"l", "e", "v", "e", "r", ".", "c", "o">>) THEN "lever.co" ELSE None

\* _format_description_links(description, url): the tags go, the text stays
_format_description_links(description) ==
  [description EXCEPT !.len = @ - description.markup, !.markup = 0]

\* enhance_job_data(data, url): the title loses a job-board prefix and
\* suffix, the description loses its markup, a missing employment type is
\* read from the description, and the source URL is added
enhance_job_data(data, url) ==
  LET description ==
        IF data.description.present /\ data.description.len > 0
                                    /\ get_site_key(url) # "lever.co"
        THEN _format_description_links(data.description)
        ELSE data.description
  IN [data EXCEPT
        !.title = IF Falsy(@) THEN @
                  ELSE CleanTitle(@),
        !.description = description,
        !.employment_type =
           IF Falsy(@) /\ description.present /\ description.len > 0
                       /\ description.mentions # None
           THEN TypeAsText(description.mentions)
           ELSE @,
        !.source_url = url]

MinDescription == 50

JobOpening == <<"J", "o", "b", " ", "O", "p", "e", "n", "i", "n", "g">>

UnknownCompany == <<"U", "n", "k", "n", "o", "w", "n", " ", "C", "o", "m", "p", "a", "n", "y">>

\* f"Job opening at {company} for {title}"
MinimalDescription(company, title) ==
  LET text == <<"J", "o", "b", " ", "o", "p", "e", "n", "i", "n", "g", " ", "a", "t", " ">> \o company \o <<" ", "f", "o", "r", " ">> \o title
  IN Desc(Len(text), text, None)

\* a warning string: a fixed text, then the value an f-string puts in it
Warning(text, value) == [text |-> text, value |-> value]

\* SimpleJobExtractor._validate_and_repair(data)
_validate_and_repair(data) ==
  LET warnings == data.provenance.warnings
      noTitle == Falsy(data.title)
      noCompany == Falsy(data.company)
      title == IF noTitle THEN JobOpening ELSE data.title
      hn == FirstPart(hostname(data.source_url), ".")
      company == IF ~noCompany THEN data.company
                 ELSE IF hn # <<>> THEN str_title(hn) ELSE UnknownCompany
      noDesc == ~data.description.present \/ data.description.len < MinDescription
      w1 == IF noTitle THEN Append(warnings, Warning("Title missing, used default", <<>>))
            ELSE warnings
      w2 == IF noCompany THEN Append(w1, Warning("Company guessed from hostname", <<>>))
            ELSE w1
      w3 == IF noDesc
            THEN Append(w2, Warning("Description missing, used minimal default", <<>>))
            ELSE w2
  IN [data EXCEPT
        !.title = title,
        !.company = company,
        !.description = IF noDesc THEN MinimalDescription(company, title) ELSE @,
        !.provenance = IF @.present THEN [@ EXCEPT !.warnings = w3] ELSE @]

\* SimpleJobExtractor.extract(url, html) on what the six methods found in html
extract(url, sources) ==
  LET merged == _merge(sources)
      enhanced == enhance_job_data(
                    [NoData EXCEPT !.title = merged.data.title,
                                   !.company = merged.data.company,
                                   !.employment_type = merged.data.employment_type,
                                   !.description = merged.data.description,
                                   !.skills = merged.data.skills,
                                   !.qualifications = merged.data.qualifications],
                    url)
      provenance == [present |-> TRUE,
                     extraction_method |->
                       _primary_method(sources[1], sources[2], sources[3]),
                     confidence_score |->
                       _confidence(sources[1], sources[2], sources[3]),
                     field_sources |-> merged.field_sources,
                     warnings |-> <<>>]
      data == [enhanced EXCEPT !.provenance = provenance]
  IN [merged |-> merged.data, unrepaired |-> data, data |-> _validate_and_repair(data)]

(***************************************************************************)
(* The command-line scraper, tools/job_scraper.py: its own merge of the    *)
(* JSON-LD, microdata, DOM and regex results and its own repair.           *)
(***************************************************************************)
\* a value that is truthy in Python
Truthy(src, field) ==
  IF field = "description" THEN src[field].present /\ src[field].len > 0
  ELSE IF field \in ListFields THEN src[field] # <<>>
  ELSE ~Falsy(src[field])

\* JobScraper._merge_extraction_data: for each field the sources are read in
\* priority order and only truthy values count
_merge_extraction_data(sources) ==
  LET first == [k \in Fields |->
                  FirstOf(sources, {src \in Range(sources) : Truthy(src, k)})]
  IN [data |->
        [title |-> first["title"].title,
         company |-> first["company"].company,
         employment_type |-> first["employment_type"].employment_type,
         description |-> first["description"].description,
         skills |-> MergeLists(sources, "skills", <<>>),
         qualifications |-> MergeLists(sources, "qualifications", <<>>)],
      field_sources |-> [k \in Fields |-> first[k].name]]

\* JobScraper._extract_job_data: the merge, then source_url and provenance
_extract_job_data(url, sources) ==
  LET merged == _merge_extraction_data(sources)
      json_ld == Found(sources[1])
      microdata == Found(sources[2])
  IN [merged |-> merged.data,
      data |->
        [NoData EXCEPT
           !.title = merged.data.title,
           !.company = merged.data.company,
           !.employment_type = merged.data.employment_type,
           !.description = merged.data.description,
           !.skills = merged.data.skills,
           !.qualifications = merged.data.qualifications,
           !.source_url = url,
           !.provenance =
              [present |-> TRUE,
               extraction_method |-> IF json_ld THEN "json-ld"
                                     ELSE IF microdata THEN "microdata"
                                     ELSE "dom-selectors",
               confidence_score |-> IF json_ld THEN 90 ELSE IF microdata THEN 80 ELSE 60,
               field_sources |-> merged.field_sources,
               warnings |-> <<>>]]]

MaxTitle == 100

\* re.sub(r'^(www\.|jobs\.|careers\.)', '', hostname)
StripHostPrefix(host) ==
  LET P == {p \in {<<"w", "w", "w", ".">>, <<"j", "o", "b", "s", ".">>,
                    <<"c", "a", "r", "e", "e", "r", "s", ".">>} : StartsWith(host, p)}
  IN IF P = {} THEN host
     ELSE SubSeq(host, Len(CHOOSE p \in P : TRUE) + 1, Len(host))

RECURSIVE BulletLines(_)
\* "\n".join(f"* {q}" for q in items), the bullet character written "*"
BulletLines(items) ==
  IF items = <<>> THEN <<>>
  ELSE <<"*", " ">> \o Head(items)
       \o (IF Tail(items) = <<>> THEN <<>> ELSE <<"\n">> \o BulletLines(Tail(items)))

\* the description generated from the extracted lists
ListsDescription(qualifications) ==
  LET head == <<"Q", "u", "a", "l", "i", "f", "i", "c", "a", "t", "i", "o", "n", "s", ":">>
      text == head \o <<"\n">> \o BulletLines(SubSeq(qualifications, 1, Min(10, Len(qualifications))))
  IN Desc(Len(text), head, None)

\* JobScraper._validate_and_repair(data), up to the JobPosting it returns
JobScraper_validate_and_repair(data) ==
  LET warnings == data.provenance.warnings
      described == data.description.present /\ data.description.len > 0
      noTitle == Falsy(data.title)
      first_line == str_strip(data.description.first_line)
      fromLine == noTitle /\ described /\ Len(first_line) < MaxTitle
      title == IF ~noTitle THEN data.title
               ELSE IF fromLine THEN first_line ELSE JobOpening
      w1 == IF ~noTitle THEN warnings
            ELSE IF fromLine
            THEN Append(warnings,
                        Warning("Title extracted from description first line", <<>>))
            ELSE Append(warnings, Warning("Title missing, used default", <<>>))
      noCompany == Falsy(data.company)
      host == hostname(data.source_url)
      company_guess == str_title(FirstPart(StripHostPrefix(host), "."))
      guessed == noCompany /\ host # <<>> /\ Len(company_guess) > 2
      company == IF ~noCompany THEN data.company
                 ELSE IF guessed THEN company_guess ELSE UnknownCompany
      w2 == IF ~noCompany THEN w1
            ELSE IF guessed
            THEN Append(w1, Warning("Company name guessed from URL: ", company_guess))
            ELSE Append(w1, Warning("Company name missing, used default", <<>>))
      noDesc == ~described \/ data.description.len < MinDescription
      fromLists == noDesc /\ data.qualifications # <<>>
      w3 == IF ~noDesc THEN w2
            ELSE IF fromLists
            THEN Append(w2, Warning("Description generated from extracted lists", <<>>))
            ELSE Append(w2, Warning("Description missing, used minimal default", <<>>))
  IN [data EXCEPT
        !.title = title,
        !.company = company,
        !.description = IF ~noDesc THEN @
                        ELSE IF fromLists THEN ListsDescription(data.qualifications)
                        ELSE MinimalDescription(company, title),
        !.provenance = IF @.present THEN [@ EXCEPT !.warnings = w3] ELSE @]

(***************************************************************************)
(* The advanced extractor, advanced_extractor.py and job_parser.py: the    *)
(* page is fetched with rotation, parsed by the first strategy that finds  *)
(* a description, and its title and description are defaulted.             *)
(***************************************************************************)
\* no JSON-LD JobPosting, or a parser whose site the URL is not on: None
NoPosting == EmptySource("None")

JobTitle == <<"J", "o", "b">>

\* the dict _extract_from_jobposting, _parse_lever and _parse_generic
\* return: "title": title or "Job", the company and description as found
Parsed(found, url) ==
  [NoData EXCEPT !.title = IF Falsy(found.title) THEN JobTitle ELSE found.title,
                 !.company = found.company,
                 !.description = found.description,
                 !.employment_type = found.employment_type,
                 !.source_url = url]

\* _parse_lever(url, soup): None unless the URL is on lever.co
_parse_lever(url, found) ==
  IF ~InString(url, <<"l", "e", "v", "e", "r", ".", "c", "o">>) THEN NoPosting ELSE found

\* parse_job_from_html(url, html) of a page where the JSON-LD, the Lever
\* selectors and the generic selectors find jsonld, lever and generic
parse_job_from_html(url, empty, jsonld, lever, generic) ==
  LET Described(found) ==
        found # NoPosting /\ found.description.present /\ found.description.len > 0
  IN IF empty
     THEN [NoData EXCEPT !.title = JobTitle, !.company = PyNone,
                         !.description = Desc(0, <<>>, None), !.source_url = url]
     ELSE IF Described(jsonld) THEN Parsed(jsonld, url)
     ELSE IF Described(_parse_lever(url, lever)) THEN Parsed(lever, url)
     ELSE Parsed(generic, url)

\* extract_job_advanced(url) when the fetch returns a page (fetched) or
\* nothing or a block reason: the job data, or the error it raises
extract_job_advanced(url, fetched, jsonld, lever, generic) ==
  IF str_strip(url) = <<>> THEN [outcome |-> "ValueError", data |-> NoData]
  ELSE IF ~fetched THEN [outcome |-> "RuntimeError", data |-> NoData]
  ELSE LET job_data == parse_job_from_html(str_strip(url), FALSE, jsonld, lever, generic)
       IN [outcome |-> "returned",
           data |-> [job_data EXCEPT
                       !.title = IF Falsy(@) THEN JobTitle ELSE @,
                       !.description = IF @.present /\ @.len > 0 THEN @
                                       ELSE Desc(0, <<>>, None)]]

(***************************************************************************)
(* The extraction functions on their own.  An initial state holds the      *)
(* arguments of one call; the action of the function called leaves what it *)
(* hands to its caller.                                                    *)
(***************************************************************************)
\* employment types as pages spell them, in lower case
EmploymentWords ==
  { <<"f", "u", "l", "l", " ", "t", "i", "m", "e">>,
    <<"f", "u", "l", "l", "t", "i", "m", "e">>,
    <<"f", "u", "l", "l", "-", "t", "i", "m", "e">>,
    <<"f", "u", "l", "l", "_", "t", "i", "m", "e">>,
    <<"p", "a", "r", "t", " ", "t", "i", "m", "e">>,
    <<"p", "a", "r", "t", "t", "i", "m", "e">>,
    <<"p", "a", "r", "t", "-", "t", "i", "m", "e">>,
    <<"c", "o", "n", "t", "r", "a", "c", "t", "o", "r">>,
    <<"c", "o", "n", "t", "r", "a", "c", "t">>,
    <<"c", "o", "n", "s", "u", "l", "t", "i", "n", "g">>,
    <<"i", "n", "t", "e", "r", "n">>,
    <<"i", "n", "t", "e", "r", "n", "s", "h", "i", "p">>,
    <<"t", "e", "m", "p", "o", "r", "a", "r", "y">>,
    <<"f", "r", "e", "e", "l", "a", "n", "c", "e">>,
    <<"p", "e", "r", "m", "a", "n", "e", "n", "t">>,
    <<>> }

\* the spellings of the words: as they are, in capitals, capitalised, and
\* with white space around them
EmploymentInputs ==
  LET Recased(s) == {s, [i \in 1..Len(s) |-> UpperChar(s[i])], str_title(s)}
      Padded(s) == {s, <<" ">> \o s, s \o <<" ">>}
  IN UNION {UNION {Padded(c) : c \in Recased(w)} : w \in EmploymentWords}

NormalizeCalls ==
  {[via |-> "normalize", done |-> FALSE, emp_type |-> e, normalized |-> None] :
     e \in EmploymentInputs}

\* a call of _normalize_employment_type(emp_type)
NormalizeEmploymentType ==
  /\ job.via = "normalize"
  /\ ~job.done
  /\ job' = [job EXCEPT !.done = TRUE,
                        !.normalized = _normalize_employment_type(job.emp_type)]
  /\ UNCHANGED <<rotation_strategy, rotation_interval, tor_available, LAST_HIT,
                 CACHE, blocked_domains, call, calls_made, starts, releases, ledger,
                 subject, verdict, svc>>

\* the URLs of the pages, each modelled by its host name
PageUrls == {<<"j", "o", "b", "s", ".", "e", "x", "a", "m", "p", "l", "e", ".", "c", "o", "m">>,
             <<"w", "w", "w", ".", "e", "x", "a", "m", "p", "l", "e", ".", "c", "o", "m">>,
             <<"c", "a", "r", "e", "e", "r", "s", ".", "a", "b", ".", "i", "o">>,
             <<"j", "o", "b", "s", ".", "l", "e", "v", "e", "r", ".", "c", "o">>,
             <<>>}

\* what _extract_json_ld can return: a blank title or name is kept as "",
\* an employment type the table does not know as None
JsonLdSources ==
  {Source("json-ld", t, c, d, e, <<>>, <<>>) :
     t \in {Absent, <<>>, <<"D", "e", "v">>}, c \in {Absent, <<>>, <<"A", "c", "m", "e">>},
     d \in {NoDesc, [Desc(80, <<>>, "part-time") EXCEPT !.markup = 40]},
     e \in {Absent, PyNone, <<"f", "u", "l", "l", "-", "t", "i", "m", "e">>}}

\* what extract_with_site_patterns can return: nothing unless the host is
\* a known job board, and "" for a company from an empty meta tag
SitePatternSources(url) ==
  IF get_site_key(url) = None THEN {EmptySource("site-patterns")}
  ELSE {Source("site-patterns", t, c, NoDesc, Absent, <<>>, <<>>) :
          t \in {Absent, <<"O", "p", "s">>}, c \in {Absent, <<>>}}

\* what _extract_microdata can return
MicrodataSources ==
  {Source("microdata", t, Absent, NoDesc, Absent, <<>>, <<>>) : t \in {Absent, <<"Q", "A">>}}

\* what _extract_dom can return: stripped non-empty texts, and a
\* description of more than 50 characters
DomSources ==
  {Source("dom", t, c, d, Absent, <<>>, <<>>) :
     t \in {Absent, <<"R", "o", "l", "e", ":", " ", "E", "n", "g">>, <<"R", "o", "l", "e", ":">>}, c \in {Absent, <<"I", "n", "i", "t", "e", "c", "h">>},
     d \in {NoDesc, Desc(60, <<>>, None)}}

\* what _extract_regex can return: the matches of the skill patterns,
\* which ignore case
RegexSources ==
  {Source("regex", Absent, Absent, NoDesc, Absent, k, <<>>) :
     k \in {<<>>, <<<<"P", "y", "t", "h", "o", "n">>>>,
            <<<<"P", "y", "t", "h", "o", "n">>,
              <<"p", "y", "t", "h", "o", "n">>>>}}

\* the calls extract(url, html), of pages where the methods find a, b, d, e
\* and f; no profile of profiles.json matches the modelled hosts
ExtractCalls ==
  \E url \in PageUrls, a \in JsonLdSources, d \in MicrodataSources,
     e \in DomSources, f \in RegexSources :
    \E b \in SitePatternSources(url) :
      job = [via |-> "extract", done |-> FALSE, url |-> url,
             sources |-> <<a, b, EmptySource("profiles"), d, e, f>>,
             merged |-> NoData, unrepaired |-> NoData, data |-> NoData]

\* a call of SimpleJobExtractor.extract(url, html)
Extract ==
  /\ job.via = "extract"
  /\ ~job.done
  /\ LET out == extract(job.url, job.sources)
     IN job' = [job EXCEPT !.done = TRUE, !.merged = out.merged,
                           !.unrepaired = out.unrepaired, !.data = out.data]
  /\ UNCHANGED <<rotation_strategy, rotation_interval, tor_available, LAST_HIT,
                 CACHE, blocked_domains, call, calls_made, starts, releases, ledger,
                 subject, verdict, svc>>

\* what JobScraper._extract_json_ld can return: a blank title and a blank
\* description are kept as ""
ScraperJsonLdSources ==
  {Source("json-ld", t, c, d, Absent, <<>>, q) :
     t \in {Absent, <<>>, <<"D", "e", "v">>}, c \in {Absent, <<"A", "c", "m", "e">>},
     d \in {NoDesc, Desc(0, <<>>, None)}, q \in {<<>>, <<<<"P", "y", "t", "h", "o", "n">>>>}}

\* what JobScraper._extract_dom_selectors can return; the first line of
\* a description can be too long for a title
ScraperDomSources ==
  {Source("dom", t, Absent, d, Absent, <<>>, q) :
     t \in {Absent, <<"E", "n", "g">>},
     d \in {NoDesc,
            Desc(60, <<"S", "t", "a", "f", "f", " ", "E", "n", "g", "i", "n", "e", "e", "r">>, None),
            Desc(150, [i \in 1..120 |-> "x"], None)},
     q \in {<<>>, <<<<"p", "y", "t", "h", "o", "n">>>>}}

\* the calls scrape_job(url), of pages where the methods find a, b, c and d
ScrapeCalls ==
  \E url \in PageUrls \ {<<>>}, a \in ScraperJsonLdSources, b \in MicrodataSources,
     c \in ScraperDomSources, d \in RegexSources :
    job = [via |-> "scrape", done |-> FALSE, url |-> url, sources |-> <<a, b, c, d>>,
           merged |-> NoData, unrepaired |-> NoData, data |-> NoData]

\* JobScraper.scrape_job(url) once the page is loaded: _extract_job_data,
\* then _validate_and_repair
ScrapeJob ==
  /\ job.via = "scrape"
  /\ ~job.done
  /\ LET out == _extract_job_data(job.url, job.sources)
     IN job' = [job EXCEPT !.done = TRUE, !.merged = out.merged,
                           !.unrepaired = out.data,
                           !.data = JobScraper_validate_and_repair(out.data)]
  /\ UNCHANGED <<rotation_strategy, rotation_interval, tor_available, LAST_HIT,
                 CACHE, blocked_domains, call, calls_made, starts, releases, ledger,
                 subject, verdict, svc>>

\* the calls _validate_and_repair(data), of dicts with or without the keys
\* title, company, description, qualifications and provenance
RepairCalls ==
  \E t \in {Absent, <<"D", "e", "v", "e", "l", "o", "p", "e", "r">>},
     c \in {Absent, <<"T", "e", "s", "t", "C", "o", "r", "p">>},
     d \in {NoDesc,
            Desc(17, <<"G", "r", "e", "a", "t", " ", "o", "p", "p", "o", "r", "t", "u", "n", "i", "t", "y">>, None),
            Desc(60, <<"S", "t", "a", "f", "f", " ", "E", "n", "g", "i", "n", "e", "e", "r">>, None)},
     q \in {<<>>, <<<<"P", "y", "t", "h", "o", "n">>>>}, url \in PageUrls,
     p \in {NoProvenance, [NoProvenance EXCEPT !.present = TRUE]} :
    job = [via |-> "validate", done |-> FALSE, url |-> url, sources |-> <<>>,
           merged |-> NoData,
           unrepaired |-> [NoData EXCEPT !.title = t, !.company = c, !.description = d,
                                         !.qualifications = q, !.source_url = url,
                                         !.provenance = p],
           data |-> NoData]

\* a call of JobScraper._validate_and_repair(data)
ValidateAndRepair ==
  /\ job.via = "validate"
  /\ ~job.done
  /\ job' = [job EXCEPT !.done = TRUE,
                        !.data = JobScraper_validate_and_repair(job.unrepaired)]
  /\ UNCHANGED <<rotation_strategy, rotation_interval, tor_available, LAST_HIT,
                 CACHE, blocked_domains, call, calls_made, starts, releases, ledger,
                 subject, verdict, svc>>

\* what the page's JSON-LD JobPosting holds, if it has one
PostingsFound ==
  {NoPosting} \cup
  {Source("json-ld", t, c, d, Absent, <<>>, <<>>) :
     t \in {Absent, <<"D", "e", "v">>}, c \in {PyNone, <<>>, <<"A", "c", "m", "e">>},
     d \in {Desc(0, <<>>, None), Desc(200, <<>>, None)}}

\* what the Lever selectors find: _extract_text_safe gives "" for no element
LeverFound(url) ==
  IF ~InString(url, <<"l", "e", "v", "e", "r", ".", "c", "o">>) THEN {NoPosting}
  ELSE {Source("lever", t, c, d, Absent, <<>>, <<>>) :
          t \in {<<>>, <<"O", "p", "s">>}, c \in {<<>>, <<"A", "c", "m", "e">>},
          d \in {Desc(0, <<>>, None), Desc(200, <<>>, None)}}

\* what the generic selectors find: None for no element, and the text of
\* the last element tried when none is long enough
GenericFound ==
  {Source("generic", t, c, Desc(200, <<>>, None), Absent, <<>>, <<>>) :
     t \in {PyNone, <<>>, <<"E", "n", "g">>}, c \in {PyNone, <<"I", "n", "i", "t", "e", "c", "h">>}}

AdvancedCalls ==
  \E url \in PageUrls, fetched \in BOOLEAN, a \in PostingsFound, c \in GenericFound :
    \E b \in LeverFound(url) :
      job = [via |-> "advanced", done |-> FALSE, url |-> url, fetched |-> fetched,
             sources |-> <<a, b, c>>, outcome |-> None,
             merged |-> NoData, unrepaired |-> NoData, data |-> NoData]

\* a call of extract_job_advanced(url), from the answer of the fetch on
ExtractJobAdvanced ==
  /\ job.via = "advanced"
  /\ ~job.done
  /\ LET out == extract_job_advanced(job.url, job.fetched, job.sources[1],
                                     job.sources[2], job.sources[3])
     IN job' = [job EXCEPT !.done = TRUE, !.outcome = out.outcome, !.data = out.data]
  /\ UNCHANGED <<rotation_strategy, rotation_interval, tor_available, LAST_HIT,
                 CACHE, blocked_domains, call, calls_made, starts, releases, ledger,
                 subject, verdict, svc>>

(***************************************************************************)
(* The regex fallback for the salary, of both extractors.                   *)
(***************************************************************************)

\* re.search(salary_pattern, text, re.IGNORECASE): the leftmost match of
\*   \$?(\d{1,3}(?:,\d{3})*(?:\.\d{2})?)\s*(?:k|K|thousand)?\s*(?:-|to)\s*
\*   \$?(\d{1,3}(?:,\d{3})*(?:\.\d{2})?)\s*(?:k|K|thousand)?\s*(?:per\s+)?
\*   (year|annual|hour|month)?
\* Positions are indexes of text; an end is the index after the last
\* character matched, and 0 stands for no match.
salary_search(text) ==
  LET low == str_lower(text)
      At(i) == IF i \in 1..Len(low) THEN low[i] ELSE ""
      Digit(i) == At(i) \in {"0", "1", "2", "3", "4", "5", "6", "7", "8", "9"}
      Word(i, w) == \A j \in 1..Len(w) : At(i + j - 1) = w[j]
      Opt(i, w) == IF Word(i, w) THEN i + Len(w) ELSE i
      RECURSIVE Ws(_)
      Ws(i) == IF At(i) = " " THEN Ws(i + 1) ELSE i
      \* the ends of \d{1,3}
      Digits(i) == {i + k : k \in {k \in 1..3 : \A j \in 0..(k - 1) : Digit(i + j)}}
      \* the ends of (?:,\d{3})*
      RECURSIVE Groups(_)
      Groups(i) ==
        {i} \cup (IF At(i) = "," /\ Digit(i + 1) /\ Digit(i + 2) /\ Digit(i + 3)
                    THEN Groups(i + 4) ELSE {})
      \* the ends of (?:\.\d{2})?
      Cents(i) == {i} \cup (IF At(i) = "." /\ Digit(i + 1) /\ Digit(i + 2)
                              THEN {i + 3} ELSE {})
      Number(i) == UNION {UNION {Cents(g) : g \in Groups(d)} : d \in Digits(i)}
      \* (?:k|K|thousand)?
      Unit(i) == IF At(i) = "k" THEN i + 1
                 ELSE Opt(i, <<"t", "h", "o", "u", "s", "a", "n", "d">>)
      \* (?:-|to)
      Sep(i) == IF At(i) = "-" THEN i + 1 ELSE IF Word(i, <<"t", "o">>) THEN i + 2 ELSE 0
      \* the ends of \s*(?:k|K|thousand)?\s*(?:-|to) after the first number
      Separated(e) == {Sep(Ws(Unit(Ws(e)))), Sep(Ws(e))} \ {0}
      \* \s*\$?(number), the longest number: whatever follows is optional
      Second(s) == MaxOver(Number(Opt(Ws(s), <<"$">>)))
      \* \s*(?:k|K|thousand)?\s*(?:per\s+)?(year|annual|hour|month)?
      Rest(e) ==
        LET u == Ws(Unit(Ws(e)))
            p == IF Word(u, <<"p", "e", "r", " ">>) THEN Ws(u + 3) ELSE u
        IN IF Word(p, <<"y", "e", "a", "r">>) THEN p + 4
           ELSE IF Word(p, <<"a", "n", "n", "u", "a", "l">>) THEN p + 6
           ELSE IF Word(p, <<"h", "o", "u", "r">>) THEN p + 4
           ELSE Opt(p, <<"m", "o", "n", "t", "h">>)
      \* the end of the match that starts at i
      Match(i) ==
        LET seps == UNION {Separated(e) : e \in Number(Opt(i, <<"$">>))}
            second == MaxOver({Second(s) : s \in seps})
        IN IF second = 0 THEN 0 ELSE Rest(second)
      found == {i \in 1..Len(text) : Match(i) # 0}
  IN IF found = {} THEN [found |-> FALSE, raw |-> <<>>]
     ELSE LET i == CHOOSE i \in found : \A j \in found : i <= j
          IN [found |-> TRUE, raw |-> SubSeq(text, i, Match(i) - 1)]

\* has_hint of SimpleJobExtractor._extract_regex: "$", "usd" or "k" in the
\* matched text, or one of the pay words between word boundaries
has_hint(raw) ==
  LET low == str_lower(raw)
      WordChar(c) == c \in Range(Lowers) \cup {"0", "1", "2", "3", "4", "5", "6", "7", "8", "9", "_"}
      Bounded(w) ==
        \E i \in 1..(Len(low) - Len(w) + 1) :
          /\ SubSeq(low, i, i + Len(w) - 1) = w
          /\ i = 1 \/ ~WordChar(low[i - 1])
          /\ i + Len(w) > Len(low) \/ ~WordChar(low[i + Len(w)])
  IN \/ Contains(raw, "$")
     \/ InString(low, <<"u", "s", "d">>)
     \/ Contains(low, "k")
     \/ \E w \in {<<"p", "e", "r">>, <<"h", "o", "u", "r">>, <<"y", "e", "a", "r">>,
                  <<"a", "n", "n", "u", "a", "l">>, <<"m", "o", "n", "t", "h">>,
                  <<"s", "a", "l", "a", "r", "y">>,
                  <<"c", "o", "m", "p", "e", "n", "s", "a", "t", "i", "o", "n">>,
                  <<"p", "a", "y">>} : Bounded(w)

\* the texts handed to the regex fallback
RegexTexts ==
    {<<"2", "0", "2", "5", "-", "0", "1", "-", "1", "5", " ", "t", "o", " ", "2", "0", "2", "5", "-", "0", "2", "-", "0", "1">>,
     <<"$", "1", "0", "0", ",", "0", "0", "0", " ", "-", " ", "$", "1", "5", "0", ",", "0", "0", "0", " ", "p", "e", "r", " ", "y", "e", "a", "r">>,
     <<"1", "0", "0", "k", "-", "1", "5", "0", "k">>,
     <<"1", "0", " ", "t", "o", " ", "2", "0">>,
     <<"1", "0", " ", "t", "o", " ", "2", "0", " ", "k", "i", "l", "o", "m", "e", "t", "e", "r", "s">>,
     <<"8", "0", " ", "t", "o", " ", "9", "0", " ", "p", "e", "r", " ", "h", "o", "u", "r">>,
     <<"3", "-", "5", " ", "y", "e", "a", "r", "s", " ", "o", "f", " ", "P", "y", "t", "h", "o", "n">>,
     <<"P", "a", "y", " ", "1", ",", "2", "0", "0", ".", "5", "0", " ", "t", "o", " ", "1", ",", "5", "0", "0", ".", "0", "0", " ", "p", "e", "r", " ", "m", "o", "n", "t", "h">>,
     <<"6", "0", " ", "t", "h", "o", "u", "s", "a", "n", "d", " ", "t", "o", " ", "7", "0", " ", "t", "h", "o", "u", "s", "a", "n", "d", " ", "a", "n", "n", "u", "a", "l">>,
     <<"a", "g", "e", "s", " ", "5", "-", "7">>,
     <<"S", "e", "n", "i", "o", "r", " ", "E", "n", "g", "i", "n", "e", "e", "r">>,
     <<>>}

\* a call of the regex fallback of both extractors on one text: salary tells
\* whether result["salary"] is set by SimpleJobExtractor._extract_regex and
\* by JobScraper._extract_regex_fallbacks
RegexFallback ==
  /\ job.via = "regex"
  /\ ~job.done
  /\ LET m == salary_search(job.text)
     IN job' = [job EXCEPT !.done = TRUE,
                           !.raw = m.raw,
                           !.salary = [extractor |-> ~Falsy(job.text) /\ m.found /\ has_hint(m.raw),
                                       scraper |-> ~Falsy(job.text) /\ m.found]]
  /\ UNCHANGED <<rotation_strategy, rotation_interval, tor_available, LAST_HIT,
                 CACHE, blocked_domains, call, calls_made, starts, releases, ledger,
                 subject, verdict, svc>>

\* the call this run makes
ExtractionCalls ==
  \/ job \in NormalizeCalls
  \/ ExtractCalls
  \/ ScrapeCalls
  \/ RepairCalls
  \/ AdvancedCalls
  \/ \E text \in RegexTexts :
       job = [via |-> "regex", done |-> FALSE, text |-> text, raw |-> <<>>,
              salary |-> [extractor |-> FALSE, scraper |-> FALSE]]

ExtractionInit ==
  /\ FetchIdle
  /\ subject = Response(EmptyHtml, 0)
  /\ verdict = NoVerdict
  /\ svc = NoServices
  /\ ExtractionCalls

ExtractionNext ==
  \/ NormalizeEmploymentType
  \/ Extract
  \/ ScrapeJob
  \/ ValidateAndRepair
  \/ ExtractJobAdvanced
  \/ RegexFallback

SpecExtraction == ExtractionInit /\ [][ExtractionNext]_vars

(***************************************************************************)
(* The other services of the process, each followed on its own: svc holds  *)
(* the state of the service in use, and svc.running names it.  A tick is   *)
(* the time unit of the service in use.                                    *)
(***************************************************************************)
\* what the other services leave alone
fetching == <<rotation_strategy, rotation_interval, tor_available, LAST_HIT,
              CACHE, blocked_domains, call, calls_made, starts, releases, ledger,
              subject, verdict, job>>

\* FreeProxyRotator.update_interval (EnhancedFreeProxyRotator: 1800 s), in
\* ticks of half an interval
update_interval == 2

\* FreeProxyRotator() and the callers of its get_next_proxy; proxies is
\* len(self.proxies), last_updated the age of self.last_updated, and
\* since_refresh and gap are history: the age of the start of the last
\* refresh, and the age the one before it had when the last one started
ProxyPool ==
  [running |-> "proxy_pool", proxies |-> 0, last_updated |-> update_interval,
   caller |-> [c \in Calls |-> "idle"],
   since_refresh |-> update_interval, gap |-> update_interval]

\* get_next_proxy() up to the first await of update_proxies(), or to its
\* return when the list is fresh
get_next_proxy(c) ==
  /\ svc.running = "proxy_pool"
  /\ svc.caller[c] = "idle"
  /\ svc' = IF svc.last_updated < update_interval /\ svc.proxies > 0
              THEN svc
              ELSE [svc EXCEPT !.caller[c] = "fetching",
                               !.gap = svc.since_refresh,
                               !.since_refresh = 0]
  /\ UNCHANGED fetching

\* fetch_free_proxies() has answered: nothing fetched and update_proxies
\* returns, or the proxies are tested
fetch_free_proxies(c, raw_proxies) ==
  /\ svc.running = "proxy_pool"
  /\ svc.caller[c] = "fetching"
  /\ svc' = [svc EXCEPT !.caller[c] = IF raw_proxies = 0 THEN "idle" ELSE "testing"]
  /\ UNCHANGED fetching

\* the tests have answered: the rest of update_proxies() and of
\* get_next_proxy()
test_proxy(c, working_proxies) ==
  /\ svc.running = "proxy_pool"
  /\ svc.caller[c] = "testing"
  /\ svc' = [svc EXCEPT !.caller[c] = "idle",
                        !.proxies = IF working_proxies > 0 THEN working_proxies ELSE @,
                        !.last_updated = 0]
  /\ UNCHANGED fetching

\* TorRotator.min_rotation_interval, in ticks of 5 s
min_rotation_interval == 2

\* the TorRotator() of the IPRotationManager() each request makes:
\* last_rotation is the age of self.last_rotation of each; since_signal and
\* gap are history: the age of the last NEWNYM sent to the control port, and
\* the age the one before it had when the last one was sent
TorRotators ==
  [running |-> "tor", last_rotation |-> [c \in Calls |-> min_rotation_interval],
   since_signal |-> min_rotation_interval, gap |-> min_rotation_interval]

\* rotate_ip() of the rotator of request c, Tor being available; sent is
\* whether the controller took the signal
rotate_ip(c, sent) ==
  /\ svc.running = "tor"
  /\ svc' = IF svc.last_rotation[c] < min_rotation_interval \/ ~sent
              THEN svc
              ELSE [svc EXCEPT !.last_rotation[c] = 0,
                               !.gap = svc.since_signal,
                               !.since_signal = 0]
  /\ UNCHANGED fetching

\* the module-level stealth_browser and the requests that use it: page is
\* the URL the driver has loaded, and a request that has navigated waits
\* (asyncio.sleep) before it reads driver.page_source
StealthBrowser ==
  [running |-> "browser", page |-> None,
   request |-> [c \in Calls |-> [pc |-> "idle", url |-> None, html |-> None]]]

\* fetch_with_browser(url) or solve_cloudflare_challenge(url) up to the
\* sleep after self.driver.get(url)
driver_get(c, url) ==
  /\ svc.running = "browser"
  /\ svc.request[c].pc \in {"idle", "returned"}
  /\ svc' = [svc EXCEPT !.page = url,
                        !.request[c] = [pc |-> "loading", url |-> url, html |-> None]]
  /\ UNCHANGED fetching

\* the sleep is over: html = self.driver.page_source, returned with 200
page_source(c) ==
  /\ svc.running = "browser"
  /\ svc.request[c].pc = "loading"
  /\ svc' = [svc EXCEPT !.request[c].pc = "returned", !.request[c].html = svc.page]
  /\ UNCHANGED fetching

\* the TTL of _HTML_CACHE in fetch_html, in ticks of 5 s
html_cache_ttl == 2

\* _HTML_CACHE of net.py for one URL: age is the age of the entry's
\* timestamp; found_stale is history: a lookup has found this entry too old
HtmlCache ==
  [running |-> "fetch_html", present |-> FALSE, age |-> 0, found_stale |-> FALSE]

\* fetch_html(url): the cached page when now - cache_entry[0] < 10, else the
\* attempts, which store the page they obtain or raise after the last try
fetch_html(usable) ==
  /\ svc.running = "fetch_html"
  /\ svc' = IF svc.present /\ svc.age < html_cache_ttl
              THEN svc
            ELSE IF usable
              THEN [svc EXCEPT !.present = TRUE, !.age = 0, !.found_stale = FALSE]
              ELSE [svc EXCEPT !.found_stale = svc.present]
  /\ UNCHANGED fetching

\* jobs the two queues hold when the worker starts
MaxJobs == 2

\* the Redis lists tf:jd:queue and tf:crawl:queue with the ids pushed to
\* them, the stored payloads and the worker: queue_of tells the list of each
\* job and stored whether its payload key exists; status is the status of the
\* stored job (None without a stored job), and dequeued is history
Worker(queue_of, stored) ==
  LET Pushed(key) == SelectSeq([j \in 1..MaxJobs |-> j], LAMBDA j : queue_of[j] = key)
  IN [running |-> "worker", jd |-> Pushed("jd"), crawl |-> Pushed("crawl"),
      stored |-> stored,
      status |-> [j \in 1..MaxJobs |-> IF stored[j] THEN "queued" ELSE None],
      pc |-> "polling", current |-> 0, dequeued |-> {}]

\* one pass of the loop of main() that finds a job, up to the first await of
\* process_jd_job or process_job: blpop takes the head of the first list
\* that is not empty, a missing payload gives {"id": job_id}, and process_job
\* reads job["url"] before its try block
main ==
  /\ svc.running = "worker"
  /\ svc.pc = "polling"
  /\ svc.jd # <<>> \/ svc.crawl # <<>>
  /\ LET q_key == IF svc.jd # <<>> THEN "jd" ELSE "crawl"
         job_id == Head(svc[q_key])
         popped == [svc EXCEPT ![q_key] = Tail(@), !.dequeued = @ \cup {job_id}]
     IN svc' = IF q_key = "crawl" /\ ~svc.stored[job_id]
                 THEN [popped EXCEPT !.pc = "KeyError"]
                 ELSE [popped EXCEPT !.pc = "processing", !.current = job_id,
                                     !.status[job_id] = "running"]
  /\ UNCHANGED fetching

\* the rest of process_jd_job or process_job: set_job_status(job_id,
\* "completed", ...), or "failed" from a return or from the except clause;
\* without a payload the URL is None and the extraction raises
process_job(completed) ==
  /\ svc.running = "worker"
  /\ svc.pc = "processing"
  /\ completed => svc.stored[svc.current]
  /\ svc' = [svc EXCEPT !.pc = "polling", !.current = 0,
                        !.status[svc.current] = IF completed THEN "completed" ELSE "failed"]
  /\ UNCHANGED fetching

V2_ORDER ==
  <<"intake", "jd", "profile", "gaps", "differentiators", "draft", "compliance",
    "ats", "benchmark", "actions", "export">>

_ensure_single_active_v2(statuses) ==
  LET pending == {i \in 1..Len(V2_ORDER) : statuses[V2_ORDER[i]] # "complete"}
  IN [k \in Range(V2_ORDER) |->
        IF statuses[k] = "complete" THEN "complete"
        ELSE IF \E i \in pending : V2_ORDER[i] = k /\ \A j \in pending : i <= j
          THEN "active"
        ELSE "pending"]

\* steps that raise in one run
MaxFailures == 1

\* a stored pipeline and a run of it: row is the statuses of
\* row.statuses_json, absent ones read as "pending" (setdefault), complete
\* the steps stored as complete; statuses and step are the locals of
\* run_pipeline_v2, failures is history
Pipeline(complete) ==
  [running |-> "pipeline",
   row |-> [k \in Range(V2_ORDER) |-> IF k \in complete THEN "complete" ELSE "pending"],
   statuses |-> [k \in Range(V2_ORDER) |-> "pending"],
   pc |-> "stored", step |-> 0, failures |-> 0]

\* run_pipeline_v2 up to its first commit
run_pipeline_v2 ==
  /\ svc.running = "pipeline"
  /\ svc.pc = "stored"
  /\ LET statuses == _ensure_single_active_v2(svc.row)
     IN svc' = [svc EXCEPT !.statuses = statuses, !.row = statuses,
                           !.pc = "committed", !.step = 1]
  /\ UNCHANGED fetching

\* the head of the loop: statuses[step] = "active" and the commit
begin_step ==
  /\ svc.running = "pipeline"
  /\ svc.pc = "committed"
  /\ svc.step <= Len(V2_ORDER)
  /\ LET statuses == [svc.statuses EXCEPT ![V2_ORDER[svc.step]] = "active"]
     IN svc' = [svc EXCEPT !.statuses = statuses, !.row = statuses, !.pc = "active"]
  /\ UNCHANGED fetching

\* the work of the step has ended or raised: "complete" or "failed", then
\* _ensure_single_active_v2 and the commit
end_step(raised) ==
  /\ svc.running = "pipeline"
  /\ svc.pc = "active"
  /\ raised => svc.failures < MaxFailures
  /\ LET statuses == _ensure_single_active_v2(
                       [svc.statuses EXCEPT ![V2_ORDER[svc.step]] =
                          IF raised THEN "failed" ELSE "complete"])
     IN svc' = [svc EXCEPT !.statuses = statuses, !.row = statuses,
                           !.pc = "committed", !.step = @ + 1,
                           !.failures = IF raised THEN @ + 1 ELSE @]
  /\ UNCHANGED fetching

\* a tick passes: the ages of the service in use grow, up to the interval
\* they are compared with
Elapse ==
  /\ svc.running \in {"proxy_pool", "tor", "fetch_html"}
  /\ svc' = CASE svc.running = "proxy_pool" ->
                   [svc EXCEPT !.last_updated = Min(@ + 1, update_interval),
                               !.since_refresh = Min(@ + 1, update_interval)]
              [] svc.running = "tor" ->
                   [svc EXCEPT !.last_rotation = [c \in Calls |-> Min(@[c] + 1, min_rotation_interval)],
                               !.since_signal = Min(@ + 1, min_rotation_interval)]
              [] OTHER -> [svc EXCEPT !.age = Min(@ + 1, html_cache_ttl)]
  /\ UNCHANGED fetching

\* one of the services is in use, and the fetch orchestrator and the
\* extraction functions are at rest
ServicesInit ==
  /\ FetchIdle
  /\ subject = Response(EmptyHtml, 0)
  /\ verdict = NoVerdict
  /\ job = NoJob
  /\ \/ svc \in {ProxyPool, TorRotators, StealthBrowser, HtmlCache}
     \/ \E queue_of \in [1..MaxJobs -> {"jd", "crawl"}], stored \in [1..MaxJobs -> BOOLEAN] :
          svc = Worker(queue_of, stored)
     \/ \E complete \in {{}, {"jd", "profile"}, Range(V2_ORDER)} :
          svc = Pipeline(complete)

ServicesNext ==
  \/ \E c \in Calls : get_next_proxy(c)
  \/ \E c \in Calls, raw_proxies \in 0..1 : fetch_free_proxies(c, raw_proxies)
  \/ \E c \in Calls, working_proxies \in 0..1 : test_proxy(c, working_proxies)
  \/ \E c \in Calls, sent \in BOOLEAN : rotate_ip(c, sent)
  \/ \E c \in Calls, url \in Urls : driver_get(c, url)
  \/ \E c \in Calls : page_source(c)
  \/ \E usable \in BOOLEAN : fetch_html(usable)
  \/ Elapse
  \/ main
  \/ \E completed \in BOOLEAN : process_job(completed)
  \/ run_pipeline_v2
  \/ begin_step
  \/ \E raised \in BOOLEAN : end_step(raised)

SpecServices == ServicesInit /\ [][ServicesNext]_vars

\* the event loop runs the worker's coroutine whenever it can go on, and
\* every fetch a job awaits is bounded by its timeout
SpecWorker ==
  /\ SpecServices
  /\ WF_vars(main)
  /\ WF_vars(\E completed \in BOOLEAN : process_job(completed))

TypeOK ==
  /\ blocked_domains \subseteq Hosts
  /\ \A c \in Calls : call[c].pc \in {"idle", "rate_limit", "fetching", "fallback", "backoff", "returned"}

(***************************************************************************)
(* Vocabulary of the properties.                                           *)
(***************************************************************************)
\* the types the classifier gives a block signal
BlockTypes ==
  {"http_status", "http_error", "empty_response", "cloudflare", "captcha",
   "access_control", "rate_limiting", "javascript_challenge", "generic_block",
   "honeypot"}

\* the executors that drive a browser
BrowserStrategies == {"stealth_browser", "browser"}

\* escalation order: a more resource-intensive, harder to detect executor
\* ranks higher
Rank(strategy) ==
  CASE strategy = "direct" -> 1
    [] strategy = "proxy" -> 2
    [] strategy = "tor" -> 3
    [] strategy = "free_antibot" -> 4
    [] strategy = "browser" -> 5
    [] strategy = "stealth_browser" -> 6
    [] OTHER -> 0

\* the strategy of the pass before the current one
PreviousStrategy(rec) == rec.strategies[((rec.attempt - 1) % Len(rec.strategies)) + 1]

\* what the most recent pass of the loop ended with: its classification, or
\* the exception it raised
LastOutcome(rec) ==
  IF rec.trace[Len(rec.trace)].ev = "fallback"
    THEN rec.trace[Len(rec.trace) - 1]
    ELSE rec.trace[Len(rec.trace)]

Exhausted(rec) == rec.pc = "returned" /\ rec.result.via = "exhausted"

\* fetch_with_rotation has returned to extract_job_advanced
Acquired(rec) == rec.pc = "returned" /\ rec.url # ""

(***************************************************************************)
(* Properties.                                                             *)
(***************************************************************************)
\* C1: every fetch to a host, the retries and the stealth-browser fallback of
\* one call included, starts at least rate_limit_delay after the start of the
\* previous fetch to that host.
C1_MinIntervalBetweenFetches ==
  [][\A c \in Calls :
       Began(call[c], call'[c]) => starts[netloc(call'[c].url)] >= rate_limit_delay]_vars

\* C2: overlapping calls to one host pass the limiter one at a time: the
\* limiter never lets a call pass less than rate_limit_delay after the one
\* before it.
C2_ReleasesSpacedApart == \A h \in Hosts : releases[h] >= rate_limit_delay

\* C3 as stated: two calls for one url that start within cache_ttl of each
\* other issue exactly one fetch between them.
C3_ExactlyOneFetch ==
  \A c \in Calls :
    Acquired(call[c]) /\ call[c].prior.recent
      => call[c].prior.fetched + call[c].fetches = 1

\* C3, amended: a call that starts within cache_ttl after a call for the same
\* url returned a freshly fetched page is served from the cache and issues no
\* fetch.
C3_ServedFromCache ==
  \A c \in Calls :
    call[c].prior.success
      => /\ call[c].pc = "returned"
         /\ call[c].result.via = "cache"
         /\ call[c].fetches = 0

C3_Witness ==
  \E c \in Calls :
    /\ call[c].prior.success
    /\ call[c].result.via = "cache"
    /\ call[c].result.html.size > 0

\* C4 as stated: a call with max_retries = n issues at most n executor
\* fetches.
C4_AtMostNFetches == \A c \in Calls : call[c].fetches <= call[c].max_retries

\* C4, amended: a call with max_retries = n makes at most n passes of the
\* loop, each with one executor fetch and at most one stealth-browser
\* fallback fetch: at most 2n fetches.
C4_AtMostNAttempts ==
  \A c \in Calls :
    /\ call[c].fetches <= 2 * call[c].max_retries
    /\ call[c].pc \in {"fetching", "fallback", "backoff"}
         => /\ call[c].attempt < call[c].max_retries
            /\ call[c].fetches <= 2 * (call[c].attempt + 1)

C4_Witness ==
  \E c \in Calls :
    /\ call[c].pc = "fallback"
    /\ call[c].attempt = call[c].max_retries - 1
    /\ call[c].fetches = 2 * call[c].max_retries
    /\ call[c].max_retries = MaxRetries

\* C5: when a pass is classified as blocked, the next pass uses a stronger
\* strategy than the one that was blocked.
C5_EscalatesAfterBlock ==
  \A c \in Calls :
    call[c].pc = "fetching" /\ call[c].attempt > 0 /\ call[c].last_error \in BlockTypes
      => Rank(CurrentStrategy(call[c])) > Rank(PreviousStrategy(call[c]))

\* C6 as stated: the reason of a call that used all its attempts is the block
\* signal classified on its last attempt.
C6_ReasonIsLastBlockSignal ==
  \A c \in Calls :
    Exhausted(call[c])
      => /\ call[c].result.reason \in BlockTypes
         /\ LastOutcome(call[c]).ev = "classified"
         /\ call[c].result.reason = LastOutcome(call[c]).type

\* C6, amended: the reason of a call that used all its attempts (max_retries
\* >= 1) is not null and is what its last attempt ended with: the type of the
\* block signal classified on it or, if it raised, the text of the exception.
C6_ReasonIsLastOutcome ==
  \A c \in Calls :
    Exhausted(call[c])
      => /\ call[c].result.reason # None
         /\ \/ /\ LastOutcome(call[c]).ev = "classified"
               /\ call[c].result.reason = LastOutcome(call[c]).type
               /\ call[c].result.reason \in BlockTypes
            \/ /\ LastOutcome(call[c]).ev = "raised"
               /\ call[c].result.reason = "integer division or modulo by zero"

C6_Witness ==
  \E c \in Calls :
    /\ Exhausted(call[c])
    /\ call[c].max_retries = MaxRetries
    /\ LastOutcome(call[c]).ev = "classified"
    /\ call[c].result.reason = "javascript_challenge"

\* C7: a result of the orchestrator, from an attempt or from the cache, has
\* either non-empty html or a reported block reason, never both, never
\* neither.
C7_HtmlOrSignal ==
  \A c \in Calls :
    Acquired(call[c]) => (call[c].result.html.size > 0) # (call[c].result.reason # None)

\* C8 as stated: the entry point hands its caller a job record or an error
\* value; no exception leaves it.
C8_NoExceptionPropagates ==
  \A c \in Calls : call[c].pc = "returned" => call[c].outcome \notin {"RuntimeError", "ValueError"}

\* C8, amended: the entry point returns a job record only for a page fetched
\* without a reported block; an empty url leaves it as a ValueError, and a
\* fetch that returned no html or a block reason as a RuntimeError.
C8_JobOrRaised ==
  \A c \in Calls :
    call[c].pc = "returned"
      => /\ call[c].outcome \in {"job", "RuntimeError", "ValueError"}
         /\ call[c].outcome = "ValueError" <=> call[c].url = ""
         /\ call[c].outcome = "job"
              => call[c].result.html.size > 0 /\ call[c].result.reason = None
         /\ Acquired(call[c]) /\ (call[c].result.html.size = 0 \/ call[c].result.reason # None)
              => call[c].outcome = "RuntimeError"

C8_Witness ==
  \E c \in Calls :
    /\ Exhausted(call[c])
    /\ call[c].result.reason \in BlockTypes
    /\ call[c].outcome = "RuntimeError"

C10_BlockedDomainBrowserFirst ==
  \A c \in Calls :
    call[c].pc = "fetching" /\ call[c].attempt = 0 /\ call[c].domain_was_blocked
      => call[c].strategies[1] \in BrowserStrategies

C12_ForbiddenEmptyBody ==
  verdict.seen > 0 /\ subject.status = 403 /\ subject.html = EmptyHtml
    => /\ verdict.last.blocked
       /\ verdict.last.type = "http_status"
       /\ verdict.last.confidence = 9

C12_Witness ==
  /\ verdict.seen > 0
  /\ subject.status = 403
  /\ subject.html = EmptyHtml
  /\ verdict.last.type = "http_status"

\* C13 as stated: cloudflare, javascript_challenge and captcha are each
\* answered with browser automation; access_control and rate_limiting each
\* with a retry under a different identity.
C13_RemediationAsStated ==
  verdict.seen > 0 /\ verdict.last.blocked
    => /\ verdict.last.type \in {"cloudflare", "javascript_challenge", "captcha"}
            => verdict.last.suggested_action = "use_browser_automation"
       /\ verdict.last.type \in {"access_control", "rate_limiting"}
            => verdict.last.suggested_action = "retry_with_different_ip"

\* C13, amended: the suggested action of a block signal is determined by its
\* type alone: cloudflare and javascript_challenge are answered with browser
\* automation, captcha with a captcha solver, access_control with a retry from
\* a different address, rate_limiting with a wait and a retry.
C13_RemediationByType ==
  verdict.seen > 0 /\ verdict.last.blocked
    => verdict.last.suggested_action =
         ( CASE verdict.last.type = "cloudflare" -> "use_browser_automation"
             [] verdict.last.type = "javascript_challenge" -> "use_browser_automation"
             [] verdict.last.type = "captcha" -> "use_captcha_solver"
             [] verdict.last.type = "access_control" -> "retry_with_different_ip"
             [] verdict.last.type = "rate_limiting" -> "wait_and_retry"
             [] verdict.last.type = "generic_block" -> "retry_with_different_strategy"
             [] verdict.last.type = "http_status" -> "retry_with_different_ip"
             [] verdict.last.type = "http_error" -> "retry"
             [] verdict.last.type = "empty_response" -> "retry_with_browser"
             [] verdict.last.type = "honeypot" -> "avoid_suspicious_elements"
             [] OTHER -> None )

C13_Witness ==
  /\ verdict.seen > 0
  /\ verdict.last.type = "captcha"
  /\ verdict.last.suggested_action = "use_captcha_solver"

\* C20: employment-type normalization maps every string to one value of
\* the enum or to null, and the aliases "full time", "fulltime" and
\* "FULL_TIME" to full-time.
C20_AliasesOfFullTime ==
  job.via = "normalize" /\ job.done
    => /\ job.normalized \in {"full-time", "part-time", "contract", "temporary",
                              "internship", "freelance", None}
       /\ job.emp_type \in {<<"f", "u", "l", "l", " ", "t", "i", "m", "e">>,
                            <<"f", "u", "l", "l", "t", "i", "m", "e">>,
                            <<"F", "U", "L", "L", "_", "T", "I", "M", "E">>}
            => job.normalized = "full-time"

\* C14: after the results of the extraction methods are merged, a scalar
\* field holds the first non-empty value in the methods' priority order,
\* whatever empty values higher-priority methods reported for it.
C14_FirstNonEmptyWins ==
  (job.via \in {"extract", "scrape"} /\ job.done) =>
    \A k \in {"title", "company"} :
      LET first == FirstOf(job.sources, {src \in Range(job.sources) : ~Falsy(src[k])})[k]
      IN first # Absent => job.merged[k] = first

\* C15: a merged list field is the union of the items the methods report,
\* without duplicates when case is ignored.
C15_ListsMergedIgnoringCase ==
  (job.via \in {"extract", "scrape"} /\ job.done) =>
    \A k \in ListFields :
      LET out == job.merged[k]
      IN /\ \A i, j \in 1..Len(out) :
              str_lower(out[i]) = str_lower(out[j]) => i = j
         /\ \A n \in 1..Len(job.sources) :
              \A item \in Range(job.sources[n][k]) :
                \E i \in 1..Len(out) : str_lower(out[i]) = str_lower(item)

\* C16: in the final job record every populated field, those filled by the
\* enhancement or the repair after the merge included, has an entry in
\* provenance.field_sources.
C16_PopulatedFieldsHaveSources ==
  (job.via \in {"extract", "scrape"} /\ job.done) =>
    \A k \in Fields :
      Truthy(job.data, k) => job.data.provenance.field_sources[k] # None

\* C17: the final job record handed to the caller has a non-empty title and
\* a non-empty company, repaired when the extraction supplied none.
C17_TitleAndCompanyNeverEmpty ==
  (/\ job.via \in {"extract", "scrape", "advanced"}
   /\ job.done
   /\ job.via = "advanced" => job.outcome = "returned") =>
    ~Falsy(job.data.title) /\ ~Falsy(job.data.company)

\* C18: whenever a missing required field (title, company or description)
\* is repaired, a record is returned and its provenance.warnings holds a
\* warning recorded for that repair.
C18_RepairsAreWarned ==
  (job.via \in {"extract", "scrape", "validate"} /\ job.done) =>
    \A k \in {"title", "company", "description"} :
      LET texts ==
            CASE k = "title" ->
                   {"Title missing, used default",
                    "Title extracted from description first line"}
              [] k = "company" ->
                   {"Company guessed from hostname", "Company name guessed from URL: ",
                    "Company name missing, used default"}
              [] k = "description" ->
                   {"Description missing, used minimal default",
                    "Description generated from extracted lists"}
          warnings == job.data.provenance.warnings
      IN job.data[k] # job.unrepaired[k] =>
           /\ job.data.provenance.present
           /\ \E i \in 1..Len(warnings) : warnings[i].text \in texts

\* C19: when no method supplies a company, the company is the label before
\* the TLD of the source host with a leading "www.", "jobs." or "careers."
\* stripped, title-cased, and provenance.warnings holds a warning: a record
\* from jobs.example.com gets the company "Example".
C19_CompanyFromHostname ==
  (/\ job.via \in {"extract", "scrape"}
   /\ job.done
   /\ Falsy(job.unrepaired.company)
   /\ Len(str_title(FirstPart(StripHostPrefix(hostname(job.url)), "."))) > 2) =>
    /\ job.data.company = str_title(FirstPart(StripHostPrefix(hostname(job.url)), "."))
    /\ job.data.provenance.warnings # <<>>

\* C21: the regex fallback of either extractor populates salary only when
\* the matched text holds a currency symbol, "k" or "thousand", or a pay
\* unit word; a bare numeric range or a date range populates nothing.
C21_SalaryNeedsPayHint ==
  job.via = "regex" /\ job.done
    => \A impl \in {"extractor", "scraper"} :
         job.salary[impl]
           => \/ Contains(job.raw, "$")
              \/ Contains(str_lower(job.raw), "k")
              \/ \E w \in {<<"p", "e", "r">>, <<"y", "e", "a", "r">>,
                           <<"a", "n", "n", "u", "a", "l">>, <<"h", "o", "u", "r">>,
                           <<"m", "o", "n", "t", "h">>} :
                   InString(str_lower(job.raw), w)

\* C29: every entry stored in the response cache is a response the
\* classifier judges not blocked, so a call served from the cache returns a
\* null block reason.
C29_CacheHoldsUnblockedOnly ==
  /\ \A u \in Urls :
       CACHE[u].present => ~_blocked(CACHE[u].html, CACHE[u].status).blocked
  /\ \A c \in Calls :
       call[c].pc = "returned" /\ call[c].result.via = "cache"
         => call[c].result.reason = None

C22_RefreshesSpacedApart ==
  svc.running = "proxy_pool" => svc.gap >= update_interval

\* C23: at most one refresh of the proxy pool is in progress at any time,
\* however the callers of get_next_proxy interleave.
C23_OneRefreshAtATime ==
  svc.running = "proxy_pool"
    => Cardinality({c \in Calls : svc.caller[c] \in {"fetching", "testing"}}) <= 1

\* C24: no two circuit-rotation signals reach the Tor control port less
\* than the minimum rotation interval apart, whichever requests of the
\* process ask for the rotations.
C24_SignalsSpacedApart ==
  svc.running = "tor" => svc.gap >= min_rotation_interval

\* C25: a cache entry whose TTL has elapsed is discarded by the lookup that
\* finds it so, and no later lookup returns it.
C25_StaleEntryDiscarded ==
  svc.running = "fetch_html" => ~(svc.found_stale /\ svc.present)

\* C26: the browser is leased to one request at a time: between the
\* navigation of a request and its read of the page source no other request
\* navigates, so that a request reads the page of its own URL.
C26_BrowserLeasedToOne ==
  svc.running = "browser"
    => /\ Cardinality({c \in Calls : svc.request[c].pc = "loading"}) <= 1
       /\ \A c \in Calls :
            svc.request[c].pc = "returned" => svc.request[c].html = svc.request[c].url

\* C28: every job the worker dequeues from either queue eventually reaches
\* the status completed or failed, a job without a stored payload included.
C28_DequeuedJobsTerminate ==
  \A j \in 1..MaxJobs :
    (svc.running = "worker" /\ j \in svc.dequeued)
      ~> (svc.running = "worker" /\ svc.status[j] \in {"completed", "failed"})

\* C30: in every state a run of a pipeline persists, at most one step has
\* the status "active", also after a step has failed.
C30_OneActiveStep ==
  svc.running = "pipeline" /\ svc.pc # "stored"
    => Cardinality({k \in Range(V2_ORDER) : svc.row[k] = "active"}) <= 1

====
